---------------------------- MODULE Spec2Model ----------------------------
(***************************************************************************)
(* Model of the stock analysis service (pji114/jusik).                     *)
(*                                                                         *)
(*   SpecAnalysis  StockService.analyze_stock (app/services/               *)
(*                 stock_service.py) with helpers.get_risk_level           *)
(*   SpecAgent     StockAnalysisAgent.analyze_market / analyze_stock       *)
(*                 (app/services/agent_service.py)                         *)
(*   SpecTools     the four agent tools' _run                              *)
(*   SpecMulti     MultiAgentSystem.comprehensive_analysis and             *)
(*                 collaborative_analysis                                  *)
(*   SpecMemory    the conversation memory of StockAnalysisAgent and of    *)
(*                 LangChainAIService                                      *)
(*   SpecStore     the vector store of LangChainAIService: indexing of     *)
(*                 analyses and get_contextual_analysis                    *)
(*   SpecApi       the endpoints of api/v1/endpoints/stocks.py and the     *)
(*                 agent endpoints of langchain.py, with                   *)
(*                 StockService.get_rising_stocks and the error path       *)
(*                 (core/exceptions.py, main.py)                           *)
(*   SpecService   AIService.__init__ and its LangChain wrappers           *)
(*                 (app/services/ai_service.py), and the instances two     *)
(*                 requests to the endpoints of langchain.py construct     *)
(*                                                                         *)
(* Text is a sequence of one-character strings, so that str.replace,       *)
(* float() and int() are computed character by character.  The Korean      *)
(* messages of the source are written as ASCII tokens; the comment next    *)
(* to each token gives the original wording.  Percentages are integers     *)
(* in hundredths of a percent (20% is 2000).                               *)
(***************************************************************************)
EXTENDS Integers, Sequences, FiniteSets, TLC

VARIABLES
    quote,      \* the Stock handed to analyze_stock, with the numbers the page showed
    calls,      \* latest analyze_stock call per use_ai value
    agentCfg,   \* settings.agent_max_iterations / agent_timeout of this deployment
    agent,      \* one StockAnalysisAgent run (the executor's loop state)
    toolCall,   \* latest tool invocation: tool, input, outcome
    multi,      \* one MultiAgentSystem run
    memory,     \* the conversation memories of one agent and one LangChain service
    rag,        \* one LangChainAIService: its vector store, indexing requests, latest query
    http,       \* one request to the API and its response
    sessions    \* two requests to the LangChain endpoints and the instances they construct

vars == <<quote, calls, agentCfg, agent, toolCall, multi, memory, rag, http, sessions>>

----------------------------------------------------------------------------
(* Bounds of the model *)

\* inputs are taken within MaxDelta hundredths (or units of volume) of each threshold
MaxDelta == 1

----------------------------------------------------------------------------
(* Text: str.replace, float(), int() *)

DigitChars == <<"0", "1", "2", "3", "4", "5", "6", "7", "8", "9">>

IsDigit(c) == \E i \in 1..10 : DigitChars[i] = c

DigitVal(c) == (CHOOSE i \in 1..10 : DigitChars[i] = c) - 1

\* s.replace(c, '')
Remove(s, c) == SelectSeq(s, LAMBDA x : x # c)

\* c in s, for a one-character c
Contains(s, c) == \E i \in 1..Len(s) : s[i] = c

RECURSIVE DigitsVal(_)
DigitsVal(s) ==
    IF s = <<>> THEN 0
    ELSE DigitsVal(SubSeq(s, 1, Len(s) - 1)) * 10 + DigitVal(s[Len(s)])

RECURSIVE Digits(_)
Digits(n) ==
    IF n < 10 THEN <<DigitChars[n + 1]>>
    ELSE Digits(n \div 10) \o <<DigitChars[(n % 10) + 1]>>

NoValue == [ok |-> FALSE, val |-> 0]

\* Python float(s) for text over digits, sign, point and other characters:
\* [sign] digits [ . digits ] or [sign] . digits ; anything else is ValueError.
\* The value is in hundredths; texts of the model have at most two decimals.
PyFloat(s) ==
    LET signed == Len(s) > 0 /\ s[1] \in {"+", "-"}
        body   == IF signed THEN Tail(s) ELSE s
        dots   == {i \in 1..Len(body) : body[i] = "."}
        dot    == IF dots = {} THEN Len(body) + 1 ELSE CHOOSE i \in dots : TRUE
        whole  == SubSeq(body, 1, dot - 1)
        frac   == SubSeq(body, dot + 1, Len(body))
        frac2  == SubSeq(frac \o <<"0", "0">>, 1, 2)
        wellFormed ==
            /\ Cardinality(dots) <= 1
            /\ \A i \in 1..Len(body) : IsDigit(body[i]) \/ body[i] = "."
            /\ Len(whole) + Len(frac) > 0
        mag    == DigitsVal(whole) * 100 + DigitsVal(frac2)
    IN  IF ~wellFormed THEN NoValue
        ELSE [ok |-> TRUE,
              val |-> IF signed /\ s[1] = "-" THEN 0 - mag ELSE mag]

\* Python int(s): [sign] digits ; anything else is ValueError.
PyInt(s) ==
    LET signed == Len(s) > 0 /\ s[1] \in {"+", "-"}
        body   == IF signed THEN Tail(s) ELSE s
        wellFormed == Len(body) > 0 /\ \A i \in 1..Len(body) : IsDigit(body[i])
    IN  IF ~wellFormed THEN NoValue
        ELSE [ok |-> TRUE,
              val |-> IF signed /\ s[1] = "-" THEN 0 - DigitsVal(body)
                      ELSE DigitsVal(body)]

----------------------------------------------------------------------------
(* Quotes as the rising-stock page shows them (Stock.change, Stock.volume) *)

NoNumber == [known |-> FALSE, val |-> 0]

Number(n) == [known |-> TRUE, val |-> n]

Pad2(n) == IF n < 10 THEN <<"0">> \o Digits(n) ELSE Digits(n)

Pad3(n) == IF n < 10 THEN <<"0", "0">> \o Digits(n)
           ELSE IF n < 100 THEN <<"0">> \o Digits(n) ELSE Digits(n)

\* "+22.50%" for sign "+" and 2250 hundredths
ChangeText(sign, m) ==
    (IF sign = "" THEN <<>> ELSE <<sign>>)
        \o Digits(m \div 100) \o <<".">> \o Pad2(m % 100) \o <<"%">>

RECURSIVE Grouped(_)
\* "1,500,000" for 1500000
Grouped(n) ==
    IF n < 1000 THEN Digits(n)
    ELSE Grouped(n \div 1000) \o <<",">> \o Pad3(n % 1000)

ChangeMagnitudes ==
    {m \in {t * 100 + d : t \in {0, 5, 10, 20}, d \in (0 - MaxDelta)..MaxDelta} : m >= 0}
        \cup {2250}

VolumeCounts ==
    {n \in {t + d : t \in {0, 100000, 1000000}, d \in (0 - MaxDelta)..MaxDelta} : n >= 0}
        \cup {1500000}

\* change texts float() rejects once '%' and '+' are removed
BadChangeTexts ==
    { <<>>, <<"N", "/", "A">>, <<"-", "-", "5", "%">>, <<"1", ",", "2", "%">> }

\* volume texts int() rejects once ',' is removed
BadVolumeTexts ==
    { <<>>, <<"1", ".", "5", "M">>, <<"1", "2", "Eok">>,    \* "12억": Eok stands for the character 억
      Grouped(1500000) \o <<"Ju">> }                       \* "1,500,000주": Ju stands for 주

Quotes ==
    LET changes ==
            { [num |-> Number(IF sg = "-" THEN 0 - m ELSE m), text |-> ChangeText(sg, m)] :
                sg \in {"+", "-", ""}, m \in ChangeMagnitudes }
            \cup { [num |-> NoNumber, text |-> t] : t \in BadChangeTexts }
        volumes ==
            { [num |-> Number(n), text |-> Grouped(n)] : n \in VolumeCounts }
            \cup { [num |-> Number(1500000), text |-> Digits(1500000)] }
            \cup { [num |-> NoNumber, text |-> t] : t \in BadVolumeTexts }
    IN  { [change |-> c.text, volume |-> v.text,
           changePercent |-> c.num, volumeCount |-> v.num] :
            c \in changes, v \in volumes }

----------------------------------------------------------------------------
(* helpers.get_risk_level *)

\* "매우 높음" VeryHigh, "높음" High, "보통" Medium, "낮음" Low
get_risk_level(change_percent) ==
    IF change_percent >= 2000 THEN "VeryHigh"
    ELSE IF change_percent >= 1000 THEN "High"
    ELSE IF change_percent >= 500 THEN "Medium"
    ELSE "Low"

----------------------------------------------------------------------------
(* StockService.get_stock_news and StockService._get_ai_analysis *)

NewsEnvs == {"items", "request_error", "parse_error"}

\* get_stock_news whose second except clause returns the items made so far
get_stock_news_partial(newsEnv) ==
    IF newsEnv = "items" THEN <<"news1", "news2">>
    ELSE IF newsEnv = "parse_error" THEN <<"news1">>
    ELSE <<>>

\* the list of NewsItem, or [] from either except clause
get_stock_news(newsEnv) ==
    IF newsEnv = "items" THEN <<"news1", "news2">> ELSE <<>>

AiEnvs == {"ok", "no_api_key", "llm_error"}

\* AIService() raises OpenAIException without a key; AIService.analyze_stock
\* re-raises every backend failure as OpenAIException.  ai_calls counts the
\* invocations of _get_ai_analysis (each constructs an AIService).
get_ai_analysis(aiEnv) ==
    IF aiEnv = "ok"
        THEN [raised |-> FALSE, value |-> "ai_html", ai_calls |-> 1]
    ELSE IF aiEnv = "no_api_key"
        THEN [raised |-> TRUE, value |-> "OpenAIException", ai_calls |-> 1]
    ELSE [raised |-> TRUE, value |-> "OpenAIException", ai_calls |-> 1]

----------------------------------------------------------------------------
(* StockService.analyze_stock *)

None == "None"

\* change_value that removes '-' as well, as helpers.extract_change_percent does
change_value_unsigned(stock) ==
    LET p == PyFloat(Remove(Remove(Remove(stock.change, "%"), "+"), "-"))
    IN  IF p.ok THEN p.val ELSE 0

\* stock.change.replace('%', '').replace('+', '') ; float() or 0
change_value(stock) ==
    LET p == PyFloat(Remove(Remove(stock.change, "%"), "+"))
    IN  IF p.ok THEN p.val ELSE 0

\* stock.volume.replace(',', '') ; int() or 0
volume_num(stock) ==
    LET p == PyInt(Remove(stock.volume, ","))
    IN  IF p.ok THEN p.val ELSE 0

\* ChangeBucket with the first breakpoint exclusive
ChangeBucket_exclusive(cv) ==
    IF cv > 2000
        THEN [risk_level |-> "VeryHigh", analysis |-> "surge_high_volatility",
              urgency |-> "near_upper_limit_caution"]
    ELSE IF cv >= 1000
        THEN [risk_level |-> "High", analysis |-> "considerable_rise_watch",
              urgency |-> "surge_pattern_careful"]
    ELSE IF cv >= 500
        THEN [risk_level |-> "Medium", analysis |-> "stable_uptrend",
              urgency |-> "gradual_worth_watching"]
    ELSE [risk_level |-> "Low", analysis |-> "gradual_rise",
          urgency |-> "stable_uptrend"]

\* ChangeBucket with the urgency notes of the two upper branches exchanged
ChangeBucket_swapped(cv) ==
    IF cv >= 2000
        THEN [risk_level |-> "VeryHigh", analysis |-> "surge_high_volatility",
              urgency |-> "surge_pattern_careful"]
    ELSE IF cv >= 1000
        THEN [risk_level |-> "High", analysis |-> "considerable_rise_watch",
              urgency |-> "near_upper_limit_caution"]
    ELSE IF cv >= 500
        THEN [risk_level |-> "Medium", analysis |-> "stable_uptrend",
              urgency |-> "gradual_worth_watching"]
    ELSE [risk_level |-> "Low", analysis |-> "gradual_rise",
          urgency |-> "stable_uptrend"]

\* the if / elif chain on change_value
\*   analysis: "급등주로 분류되며, 높은 변동성을 보입니다."            surge_high_volatility
\*             "상당한 상승을 보이며, 주의깊은 관찰이 필요합니다."      considerable_rise_watch
\*             "안정적인 상승세를 보이고 있습니다."                      stable_uptrend
\*             "점진적인 상승을 보이고 있습니다."                        gradual_rise
\*   urgency:  "상한가 근접으로 매우 주의가 필요합니다."                 near_upper_limit_caution
\*             "급등 패턴으로 신중한 접근이 필요합니다."                 surge_pattern_careful
\*             "점진적 상승으로 관심을 가져볼 만합니다."                 gradual_worth_watching
\*             "안정적인 상승세를 보이고 있습니다."                      stable_uptrend
ChangeBucket(cv) ==
    IF cv >= 2000
        THEN [risk_level |-> "VeryHigh", analysis |-> "surge_high_volatility",
              urgency |-> "near_upper_limit_caution"]
    ELSE IF cv >= 1000
        THEN [risk_level |-> "High", analysis |-> "considerable_rise_watch",
              urgency |-> "surge_pattern_careful"]
    ELSE IF cv >= 500
        THEN [risk_level |-> "Medium", analysis |-> "stable_uptrend",
              urgency |-> "gradual_worth_watching"]
    ELSE [risk_level |-> "Low", analysis |-> "gradual_rise",
          urgency |-> "stable_uptrend"]

\* VolumeNote with the upper breakpoint inclusive
VolumeNote_inclusive(vn) ==
    IF vn >= 1000000 THEN "very_active"
    ELSE IF vn > 100000 THEN "elevated"
    ELSE "normal"

\* the if / elif chain on volume_num
\*   "거래량이 매우 활발하여 관심도가 높습니다."                 very_active
\*   "거래량이 평소보다 높아 관심이 증가하고 있습니다."         elevated
\*   "거래량이 평소 수준입니다."                                 normal
VolumeNote(vn) ==
    IF vn > 1000000 THEN "very_active"
    ELSE IF vn > 100000 THEN "elevated"
    ELSE "normal"

\* AiStep without the inner try: the failure reaches the outer except
AiStep_propagate(use_ai, aiEnv) ==
    IF ~use_ai THEN [raised |-> FALSE, value |-> None, ai_calls |-> 0]
    ELSE get_ai_analysis(aiEnv)

\* AiStep that ignores use_ai
AiStep_always(use_ai, aiEnv) ==
    LET r == get_ai_analysis(IF use_ai THEN aiEnv ELSE "ok")
    IN  IF r.raised
            THEN [raised |-> FALSE, value |-> "ai_unavailable", ai_calls |-> r.ai_calls]
        ELSE r

\* the inner try / except around _get_ai_analysis
\*   "AI 분석을 사용할 수 없습니다."   ai_unavailable
AiStep(use_ai, aiEnv) ==
    IF ~use_ai THEN [raised |-> FALSE, value |-> None, ai_calls |-> 0]
    ELSE LET r == get_ai_analysis(aiEnv)
         IN  IF r.raised
                THEN [raised |-> FALSE, value |-> "ai_unavailable",
                      ai_calls |-> r.ai_calls]
             ELSE r

\* the whole of analyze_stock: a StockAnalysis, or AnalysisException
analyze_stock(stock, use_ai, newsEnv, aiEnv) ==
    LET b    == ChangeBucket(change_value(stock))
        note == VolumeNote(volume_num(stock))
        news == get_stock_news(newsEnv)
        ai   == AiStep(use_ai, aiEnv)
    IN  IF ai.raised
            THEN [raised |-> TRUE, exception |-> "AnalysisException",
                  ai_calls |-> ai.ai_calls]
        ELSE [raised |-> FALSE,
              basic_analysis |-> b.analysis,
              risk_level |-> b.risk_level,
              urgency |-> b.urgency,
              volume_analysis |-> note,
              news_list |-> news,
              ai_analysis |-> ai.value,
              ai_calls |-> ai.ai_calls]

NoCall == [made |-> FALSE]

AnalysisInit ==
    /\ quote \in Quotes
    /\ calls = [u \in BOOLEAN |-> NoCall]

AnalysisIdle ==
    /\ quote = [change |-> <<>>, volume |-> <<>>,
                changePercent |-> NoNumber, volumeCount |-> NoNumber]
    /\ calls = [u \in BOOLEAN |-> NoCall]

\* one call analyze_stock(stock, use_ai=False)
AnalyzeDeterministic ==
    \E newsEnv \in NewsEnvs :
        calls' = [calls EXCEPT ![FALSE] =
                    [made |-> TRUE, newsEnv |-> newsEnv, aiEnv |-> None,
                     result |-> analyze_stock(quote, FALSE, newsEnv, None)]]

\* one call analyze_stock(stock, use_ai=True)
AnalyzeWithAI ==
    \E newsEnv \in NewsEnvs, aiEnv \in AiEnvs :
        calls' = [calls EXCEPT ![TRUE] =
                    [made |-> TRUE, newsEnv |-> newsEnv, aiEnv |-> aiEnv,
                     result |-> analyze_stock(quote, TRUE, newsEnv, aiEnv)]]

----------------------------------------------------------------------------
(* Claims about analyze_stock (SpecAnalysis) *)

\* C1: for a quote whose page value is x percent, every analyze_stock result has
\* risk_level VeryHigh when x >= 20, High when 10 <= x < 20, Medium when
\* 5 <= x < 10 and Low otherwise, and helpers.get_risk_level(x) is that level.
C1_RiskLevelByThreshold ==
    \A u \in BOOLEAN :
        (calls[u].made /\ quote.changePercent.known) =>
            LET x == quote.changePercent.val
                r == calls[u].result
            IN  /\ ~r.raised
                /\ (x >= 2000) => r.risk_level = "VeryHigh"
                /\ (1000 <= x /\ x < 2000) => r.risk_level = "High"
                /\ (500 <= x /\ x < 1000) => r.risk_level = "Medium"
                /\ (x < 500) => r.risk_level = "Low"
                /\ get_risk_level(x) = r.risk_level

C1_Witness ==
    /\ calls[FALSE].made
    /\ quote.changePercent = Number(2000)
    /\ calls[FALSE].result.risk_level = "VeryHigh"

\* C2: for a quote whose page volume is n, the volume note is very_active iff
\* n > 1,000,000, elevated iff 100,000 < n <= 1,000,000, and normal otherwise.
C2_VolumeNoteByCount ==
    \A u \in BOOLEAN :
        (calls[u].made /\ quote.volumeCount.known) =>
            LET n == quote.volumeCount.val
                r == calls[u].result
            IN  /\ ~r.raised
                /\ r.volume_analysis = "very_active" <=> n > 1000000
                /\ r.volume_analysis = "elevated" <=> (100000 < n /\ n <= 1000000)
                /\ r.volume_analysis = "normal" <=> n <= 100000

C2_Witness ==
    /\ calls[TRUE].made
    /\ quote.volumeCount = Number(1000000)
    /\ calls[TRUE].result.volume_analysis = "elevated"

\* C3: a use_ai=True call whose AI backend raised did not raise, and its
\* risk_level, basic_analysis, urgency and volume_analysis equal those of the
\* use_ai=False call for the same quote.
C3_FallbackOnAiFailure ==
    (calls[TRUE].made /\ calls[TRUE].aiEnv # "ok") =>
        /\ ~calls[TRUE].result.raised
        /\ calls[FALSE].made =>
            /\ ~calls[FALSE].result.raised
            /\ calls[TRUE].result.risk_level = calls[FALSE].result.risk_level
            /\ calls[TRUE].result.basic_analysis = calls[FALSE].result.basic_analysis
            /\ calls[TRUE].result.urgency = calls[FALSE].result.urgency
            /\ calls[TRUE].result.volume_analysis = calls[FALSE].result.volume_analysis

C3_Witness ==
    /\ calls[TRUE].made /\ calls[TRUE].aiEnv = "llm_error"
    /\ calls[FALSE].made
    /\ calls[TRUE].result.ai_analysis = "ai_unavailable"
    /\ calls[TRUE].result.risk_level = "High"

\* C4: a use_ai=False call made no call of _get_ai_analysis / AIService and its
\* ai_analysis is None.
C4_DeterministicNeverCallsAi ==
    calls[FALSE].made =>
        /\ ~calls[FALSE].result.raised
        /\ calls[FALSE].result.ai_calls = 0
        /\ calls[FALSE].result.ai_analysis = None

C4_Witness ==
    /\ calls[FALSE].made /\ calls[FALSE].result.ai_calls = 0
    /\ calls[TRUE].made /\ calls[TRUE].result.ai_calls = 1

\* the four rows of the source's table: risk level, basic analysis, urgency
BucketRows ==
    { <<"VeryHigh", "surge_high_volatility", "near_upper_limit_caution">>,
      <<"High", "considerable_rise_watch", "surge_pattern_careful">>,
      <<"Medium", "stable_uptrend", "gradual_worth_watching">>,
      <<"Low", "gradual_rise", "stable_uptrend">> }

\* C5: in every result, risk_level, basic_analysis and urgency are one row of
\* the table, and a quote of 20 percent or more analysed with use_ai=False has
\* risk_level VeryHigh with the near-upper-limit urgency wording.
C5_WordingMatchesRiskLevel ==
    /\ \A u \in BOOLEAN :
        calls[u].made =>
            /\ ~calls[u].result.raised
            /\ <<calls[u].result.risk_level, calls[u].result.basic_analysis,
                 calls[u].result.urgency>> \in BucketRows
    /\ (calls[FALSE].made /\ quote.changePercent.known
            /\ quote.changePercent.val >= 2000) =>
        /\ calls[FALSE].result.risk_level = "VeryHigh"
        /\ calls[FALSE].result.urgency = "near_upper_limit_caution"

\* the end-to-end scenario: "+22.50%", volume "1500000", use_ai=False
C5_Witness ==
    /\ calls[FALSE].made
    /\ quote.change = ChangeText("+", 2250)
    /\ quote.volume = Digits(1500000)
    /\ calls[FALSE].result.risk_level = "VeryHigh"
    /\ calls[FALSE].result.urgency = "near_upper_limit_caution"
    /\ calls[FALSE].result.volume_analysis = "very_active"

C29_NewsFailureGivesEmptyNewsList ==
    \A u \in BOOLEAN :
        (calls[u].made /\ calls[u].newsEnv # "items") =>
            /\ ~calls[u].result.raised
            /\ calls[u].result.news_list = <<>>
            /\ (calls[~u].made /\ calls[~u].newsEnv = "items") =>
                    /\ ~calls[~u].result.raised
                    /\ calls[~u].result.news_list # <<>>
                    /\ calls[u].result.risk_level = calls[~u].result.risk_level
                    /\ calls[u].result.volume_analysis = calls[~u].result.volume_analysis

\* the same quote of 20% or more analysed once with a parsing error in the
\* news and once with news items
C29_Witness ==
    /\ calls[FALSE].made /\ calls[FALSE].newsEnv = "parse_error"
    /\ calls[TRUE].made /\ calls[TRUE].newsEnv = "items"
    /\ calls[FALSE].result.news_list = <<>>
    /\ Len(calls[TRUE].result.news_list) = 2
    /\ calls[FALSE].result.risk_level = "VeryHigh"
    /\ calls[TRUE].result.risk_level = "VeryHigh"

----------------------------------------------------------------------------
(* The agent tools (agent_service.py): StockDataTool, NewsAnalysisTool,    *)
(* TechnicalAnalysisTool, RiskAssessmentTool                                *)

\* at most MaxQuotes quotes in the JSON list handed to a tool
MaxQuotes == 2

NoExc == "none"

Ok(v) == [exc |-> NoExc, value |-> v]

Raise(e) == [exc |-> e, value |-> None]

\* the classes "except Exception" catches among those the tools can meet
ExceptionClasses ==
    {"TypeError", "AttributeError", "ValueError", "KeyError", "JSONDecodeError"}

\* ReturnOrErrorText with "except ValueError" in place of "except Exception"
ReturnOrErrorText_valueErrorOnly(r, message) ==
    IF r.exc = NoExc
        THEN [raised |-> FALSE, is_error_text |-> FALSE, value |-> r.value]
    ELSE IF r.exc \in {"ValueError", "JSONDecodeError"}
        THEN [raised |-> FALSE, is_error_text |-> TRUE,
              value |-> [message |-> message, cause |-> r.exc]]
    ELSE [raised |-> TRUE, is_error_text |-> FALSE, value |-> r.exc]

\* try: <body> except Exception as e: return f"<message>: {str(e)}"
ReturnOrErrorText(r, message) ==
    IF r.exc = NoExc
        THEN [raised |-> FALSE, is_error_text |-> FALSE, value |-> r.value]
    ELSE IF r.exc \in ExceptionClasses
        THEN [raised |-> FALSE, is_error_text |-> TRUE,
              value |-> [message |-> message, cause |-> r.exc]]
    ELSE [raised |-> TRUE, is_error_text |-> FALSE, value |-> r.exc]

\* --- StockDataTool ---

\* the keywords a query may contain: "급등", "상승", "급락", "하락"
RisingKeywords == {"geupdeung", "sangseung"}
FallingKeywords == {"geuprak", "harak"}

\* a query is the set of the keywords (and other words) it contains
Queries == SUBSET {"geupdeung", "sangseung", "geuprak", "harak", "samsung"}

\* self.stock_service.get_rising_stocks(count=5): an async def called without
\* await gives a coroutine object; StockService has no get_falling_stocks
StockDataFetch(query) ==
    IF query \cap RisingKeywords # {} THEN Ok("coroutine:get_rising_stocks")
    ELSE IF query \cap FallingKeywords # {} THEN Raise("AttributeError")
    ELSE Ok("coroutine:get_rising_stocks")

\* for stock in stocks: a coroutine object is not iterable
StockDataBody(query) ==
    LET stocks == StockDataFetch(query)
    IN  IF stocks.exc # NoExc THEN stocks ELSE Raise("TypeError")

\* "데이터 수집 중 오류가 발생했습니다"   data_collection_error
StockDataTool_run(query) ==
    ReturnOrErrorText(StockDataBody(query), "data_collection_error")

\* --- NewsAnalysisTool ---

StockNames == {"A", "B"}

\* self.stock_service.get_stock_news(stock_name, count=5): get_stock_news
\* takes no count parameter
NewsBody(stock_name) == Raise("TypeError")

\* "뉴스 분석 중 오류가 발생했습니다"   news_analysis_error
NewsAnalysisTool_run(stock_name) ==
    ReturnOrErrorText(NewsBody(stock_name), "news_analysis_error")

\* --- the stock_data argument of the technical and risk tools ---

MissingKey == "<missing>"

Str(t) == [present |-> TRUE, is_str |-> TRUE, text |-> t]
Absent == [present |-> FALSE, is_str |-> FALSE, text |-> <<>>]
NonStr == [present |-> TRUE, is_str |-> FALSE, text |-> <<>>]

Dict(n, c, v) == [kind |-> "dict", name |-> n, change |-> c, volume |-> v]

\* an element of the list that is no object (a number, say)
ScalarItem == [kind |-> "scalar", name |-> MissingKey, change |-> Absent, volume |-> Absent]

SignedChangeText(x) == ChangeText(IF x < 0 THEN "-" ELSE "+", IF x < 0 THEN 0 - x ELSE x)

ChangeSamples == {500, 1000, 1001, 0 - 1000, 0 - 1001, 2000, 2001, 0 - 2001}

VolumeSamples == { Grouped(1500000), <<"1", ".", "5", "M">>, <<"1", "2", "Eok">> }

WellFormedItems ==
    { Dict("A", Str(SignedChangeText(x)), Str(v)) : x \in ChangeSamples, v \in VolumeSamples }
        \cup { Dict("B", Str(SignedChangeText(x)), Str(Grouped(1500000))) : x \in {1001, 0 - 2001} }

BadItems ==
    { Dict(MissingKey, Str(SignedChangeText(500)), Str(Grouped(1500000))),
      Dict(MissingKey, Str(SignedChangeText(2001)), Str(Grouped(1500000))),
      Dict("A", Absent, Absent),
      Dict("A", Str(<<"N", "/", "A">>), Str(Grouped(1500000))),
      Dict("A", NonStr, Str(Grouped(1500000))),
      Dict("A", Str(SignedChangeText(500)), NonStr),
      ScalarItem }

Items == WellFormedItems \cup BadItems

RECURSIVE SeqsUpTo(_, _)
SeqsUpTo(S, n) ==
    IF n = 0 THEN {<<>>}
    ELSE LET shorter == SeqsUpTo(S, n - 1)
         IN  shorter \cup {Append(q, x) : q \in {r \in shorter : Len(r) = n - 1}, x \in S}

\* what json.loads gives, or that it fails
JsonValues ==
    { [kind |-> "malformed", items |-> <<>>],
      [kind |-> "number", items |-> <<>>],
      [kind |-> "object", items |-> <<>>],
      [kind |-> "object", items |-> <<ScalarItem>>] }
        \cup { [kind |-> "list", items |-> q] : q \in SeqsUpTo(Items, MaxQuotes) }

\* stock_data as a str, or (isinstance(stock_data, str) false) already parsed
ToolData ==
    { [is_str |-> TRUE, json |-> j] : j \in JsonValues }
        \cup { [is_str |-> FALSE, json |-> j] :
                j \in { [kind |-> "number", items |-> <<>>],
                        [kind |-> "list", items |-> <<>>] } }

\* data = json.loads(stock_data) if isinstance(stock_data, str) else stock_data ;
\* for stock in data: the elements of a list, the keys of an object
LoadItems(stock_data) ==
    LET j == stock_data.json
    IN  IF j.kind = "malformed" THEN Raise("JSONDecodeError")
        ELSE IF j.kind = "number" THEN Raise("TypeError")
        ELSE Ok(j.items)

\* float(stock.get("change", "0%").replace("%", ""))
ItemChangePercent(stock) ==
    IF stock.kind # "dict" THEN Raise("AttributeError")
    ELSE LET c == IF stock.change.present THEN stock.change ELSE Str(<<"0", "%">>)
         IN  IF ~c.is_str THEN Raise("AttributeError")
             ELSE LET p == PyFloat(Remove(c.text, "%"))
                  IN  IF p.ok THEN Ok(p.val) ELSE Raise("ValueError")

\* stock['name']
ItemName(stock) ==
    IF stock.name = MissingKey THEN Raise("KeyError") ELSE Ok(stock.name)

Abs(x) == IF x < 0 THEN 0 - x ELSE x

Min(a, b) == IF a < b THEN a ELSE b

\* --- TechnicalAnalysisTool ---

\* one pass of the for loop
\*   "강한 상승 패턴" strong_uptrend / "매수 관심" buy_interest
\*   "강한 하락 패턴" strong_downtrend / "매도 관심" sell_interest
\*   "횡보 패턴"      sideways / "관망" hold
TechnicalItem(analysis, stock) ==
    LET cp == ItemChangePercent(stock)
        nm == ItemName(stock)
        entry(pattern, rec) ==
            Ok([patterns |-> Append(analysis.patterns, [name |-> nm.value, pattern |-> pattern]),
                recommendation |-> rec])
    IN  IF cp.exc # NoExc THEN cp
        ELSE IF nm.exc # NoExc THEN nm
        ELSE IF cp.value > 1000 THEN entry("strong_uptrend", "buy_interest")
        ELSE IF cp.value < 0 - 1000 THEN entry("strong_downtrend", "sell_interest")
        ELSE entry("sideways", "hold")

RECURSIVE TechnicalLoop(_, _)
TechnicalLoop(acc, items) ==
    IF acc.exc # NoExc \/ items = <<>> THEN acc
    ELSE TechnicalLoop(TechnicalItem(acc.value, Head(items)), Tail(items))

TechnicalBody(stock_data) ==
    LET data == LoadItems(stock_data)
    IN  IF data.exc # NoExc THEN data
        ELSE TechnicalLoop(Ok([patterns |-> <<>>, recommendation |-> ""]), data.value)

\* "기술적 분석 중 오류가 발생했습니다"   technical_analysis_error
TechnicalAnalysisTool_run(stock_data) ==
    ReturnOrErrorText(TechnicalBody(stock_data), "technical_analysis_error")

\* --- RiskAssessmentTool ---

\* "M" in volume or "억" in volume
HighVolumeToken(stock) ==
    LET v == IF stock.volume.present THEN stock.volume ELSE Str(<<"0">>)
    IN  IF ~v.is_str THEN Raise("TypeError")
        ELSE Ok(Contains(v.text, "M") \/ Contains(v.text, "Eok"))

\* RiskBonus with ">=" in place of ">" in both comparisons
RiskBonus_inclusive(change_percent) ==
    IF Abs(change_percent) >= 2000 THEN 3
    ELSE IF Abs(change_percent) >= 1000 THEN 2
    ELSE 0

\* RiskBonus with "if" in place of "elif": both bonuses for a move above 20
RiskBonus_cumulative(change_percent) ==
    (IF Abs(change_percent) > 2000 THEN 3 ELSE 0)
        + (IF Abs(change_percent) > 1000 THEN 2 ELSE 0)

\* if abs(change_percent) > 20: risk_score += 3
\* elif abs(change_percent) > 10: risk_score += 2     (in hundredths)
RiskBonus(change_percent) ==
    IF Abs(change_percent) > 2000 THEN 3
    ELSE IF Abs(change_percent) > 1000 THEN 2
    ELSE 0

\* one pass of the for loop; scores are kept whole, the mean as total / count
\*   "급격한 가격 변동" sharp_price_move, "높은 변동성" high_volatility,
\*   "높은 거래량" high_volume, "고위험, 신중한 투자 필요" high_risk_careful,
\*   "상대적으로 안정적" relatively_stable
RiskItem(acc, stock) ==
    LET cp == ItemChangePercent(stock)
        nm == ItemName(stock)
        bonus == RiskBonus(cp.value)
        hv == HighVolumeToken(stock)
        risk_score == 5 + bonus + (IF hv.value = TRUE THEN 1 ELSE 0)
        factors1 ==
            IF bonus = 3 THEN <<[name |-> nm.value, factor |-> "sharp_price_move"]>>
            ELSE IF bonus = 2 THEN <<[name |-> nm.value, factor |-> "high_volatility"]>>
            ELSE <<>>
        factors2 ==
            IF hv.value = TRUE THEN <<[name |-> nm.value, factor |-> "high_volume"]>> ELSE <<>>
        recs ==
            IF risk_score > 7 THEN <<[name |-> nm.value, advice |-> "high_risk_careful"]>>
            ELSE IF risk_score < 4 THEN <<[name |-> nm.value, advice |-> "relatively_stable"]>>
            ELSE <<>>
    IN  IF cp.exc # NoExc THEN cp
        ELSE IF bonus > 0 /\ nm.exc # NoExc THEN nm
        ELSE IF hv.exc # NoExc THEN hv
        ELSE IF (factors2 # <<>> \/ recs # <<>>) /\ nm.exc # NoExc THEN nm
        ELSE Ok([scores |-> Append(acc.scores, risk_score),
                 total_score |-> acc.total_score + Min(risk_score, 10),
                 count |-> acc.count + 1,
                 risk_factors |-> acc.risk_factors \o factors1 \o factors2,
                 recommendations |-> acc.recommendations \o recs])

RECURSIVE RiskLoop(_, _)
RiskLoop(acc, items) ==
    IF acc.exc # NoExc \/ items = <<>> THEN acc
    ELSE RiskLoop(RiskItem(acc.value, Head(items)), Tail(items))

\* overall_risk_score = total_score / count if count > 0 else 5, as a fraction
RiskBody(stock_data) ==
    LET data == LoadItems(stock_data)
        start == [scores |-> <<>>, total_score |-> 0, count |-> 0,
                  risk_factors |-> <<>>, recommendations |-> <<>>]
        done == RiskLoop(Ok(start), data.value)
    IN  IF data.exc # NoExc THEN data
        ELSE IF done.exc # NoExc THEN done
        ELSE Ok([overall_risk_score |->
                    IF done.value.count > 0
                        THEN [num |-> done.value.total_score, den |-> done.value.count]
                    ELSE [num |-> 5, den |-> 1],
                 scores |-> done.value.scores,
                 risk_factors |-> done.value.risk_factors,
                 recommendations |-> done.value.recommendations])

\* "위험도 평가 중 오류가 발생했습니다"   risk_assessment_error
RiskAssessmentTool_run(stock_data) ==
    ReturnOrErrorText(RiskBody(stock_data), "risk_assessment_error")

\* --- one invocation of a tool (the tools keep no state between calls) ---

ToolNames == {"stock_data_collector", "news_analyzer", "technical_analyzer", "risk_assessor"}

ToolsInit == toolCall = [tool |-> None]

RunStockDataTool ==
    /\ toolCall.tool = None
    /\ \E query \in Queries :
        toolCall' = [tool |-> "stock_data_collector", input |-> query,
                     out |-> StockDataTool_run(query)]

RunNewsAnalysisTool ==
    /\ toolCall.tool = None
    /\ \E stock_name \in StockNames :
        toolCall' = [tool |-> "news_analyzer", input |-> stock_name,
                     out |-> NewsAnalysisTool_run(stock_name)]

RunTechnicalAnalysisTool ==
    /\ toolCall.tool = None
    /\ \E stock_data \in ToolData :
        toolCall' = [tool |-> "technical_analyzer", input |-> stock_data,
                     out |-> TechnicalAnalysisTool_run(stock_data)]

RunRiskAssessmentTool ==
    /\ toolCall.tool = None
    /\ \E stock_data \in ToolData :
        toolCall' = [tool |-> "risk_assessor", input |-> stock_data,
                     out |-> RiskAssessmentTool_run(stock_data)]

----------------------------------------------------------------------------
(* Claims about the tools (SpecTools) *)

ToolErrorMessage(tool) ==
    IF tool = "stock_data_collector" THEN "data_collection_error"
    ELSE IF tool = "news_analyzer" THEN "news_analysis_error"
    ELSE IF tool = "technical_analyzer" THEN "technical_analysis_error"
    ELSE "risk_assessment_error"

\* C7: every invocation of each of the four tools returns text and does not
\* raise; malformed input gives the tool's own error text, and every error
\* text names the tool's failure.
C7_ToolsNeverRaise ==
    (toolCall.tool # None) =>
        /\ ~toolCall.out.raised
        /\ (toolCall.tool \in {"technical_analyzer", "risk_assessor"}
                /\ toolCall.input.json.kind = "malformed") => toolCall.out.is_error_text
        /\ toolCall.out.is_error_text =>
                toolCall.out.value.message = ToolErrorMessage(toolCall.tool)

C7_Witness ==
    /\ toolCall.tool = "risk_assessor"
    /\ toolCall.input.json.kind = "list"
    /\ Len(toolCall.input.json.items) = 2
    /\ toolCall.out.is_error_text
    /\ toolCall.out.value.cause = "KeyError"

\* C19: StockDataTool._run(query) returns a JSON list of at most 5 quotes:
\* the rising list when query contains a rising keyword or neither kind of
\* keyword, the falling list when it contains a falling keyword and no rising
\* keyword.
C19_StockDataToolReturnsQuotes ==
    (toolCall.tool = "stock_data_collector") =>
        /\ ~toolCall.out.raised
        /\ ~toolCall.out.is_error_text
        /\ toolCall.out.value.list =
                (IF toolCall.input \cap RisingKeywords # {} THEN "rising"
                 ELSE IF toolCall.input \cap FallingKeywords # {} THEN "falling"
                 ELSE "rising")
        /\ Len(toolCall.out.value.quotes) <= 5

\* C20: NewsAnalysisTool._run(stock_name) returns the fetched news items, at
\* most 5, as structured text, or the fixed no-news message when the fetch
\* yields none.
C20_NewsToolReturnsItemsOrNoNews ==
    (toolCall.tool = "news_analyzer") =>
        /\ ~toolCall.out.raised
        /\ ~toolCall.out.is_error_text
        /\ \/ toolCall.out.value.kind = "no_news"
           \/ /\ toolCall.out.value.kind = "news_items"
              /\ Len(toolCall.out.value.items) <= 5

\* a well-formed quote list: a JSON list whose elements all carry a name, a
\* signed percentage text and a volume text
WellFormedList(stock_data) ==
    /\ stock_data.json.kind = "list"
    /\ \A i \in 1..Len(stock_data.json.items) : stock_data.json.items[i] \in WellFormedItems

\* the changePercent (in hundredths) a well-formed quote was written from
ChangeOf(stock) ==
    CHOOSE x \in ChangeSamples : stock.change = Str(SignedChangeText(x))

PatternOf(x) ==
    IF x > 1000 THEN "strong_uptrend"
    ELSE IF x < 0 - 1000 THEN "strong_downtrend"
    ELSE "sideways"

RecommendationOf(pattern) ==
    IF pattern = "strong_uptrend" THEN "buy_interest"
    ELSE IF pattern = "strong_downtrend" THEN "sell_interest"
    ELSE "hold"

\* C21: for every well-formed quote list, technicalAnalyze emits exactly one
\* pattern entry per quote in input order, strong-uptrend iff changePercent >
\* 10, strong-downtrend iff changePercent < -10, sideways otherwise (+10 and
\* -10 are sideways), and emits a recommendation for each bucket that occurs.
C21_PatternPerQuoteRecommendationPerBucket ==
    (toolCall.tool = "technical_analyzer" /\ WellFormedList(toolCall.input)) =>
        LET items == toolCall.input.json.items
            out == toolCall.out
        IN  /\ ~out.raised
            /\ ~out.is_error_text
            /\ Len(out.value.patterns) = Len(items)
            /\ \A i \in 1..Len(items) :
                /\ out.value.patterns[i] =
                        [name |-> items[i].name, pattern |-> PatternOf(ChangeOf(items[i]))]
                /\ RecommendationOf(PatternOf(ChangeOf(items[i])))
                        \in {out.value.recommendation}

\* whether a well-formed quote's volume text contains "억" or "M"
VolumeBonusOf(stock) ==
    IF stock.volume \in {Str(<<"1", ".", "5", "M">>), Str(<<"1", "2", "Eok">>)} THEN 1 ELSE 0

RECURSIVE SumSeq(_)
SumSeq(q) == IF q = <<>> THEN 0 ELSE Head(q) + SumSeq(Tail(q))

\* the overall score of a list whose per-quote scores are q
MeanOrFive(q) ==
    IF Len(q) > 0 THEN [num |-> SumSeq(q), den |-> Len(q)] ELSE [num |-> 5, den |-> 1]

\* the per-quote score when each bonus whose condition holds is added
ScoreAddingEach(stock) ==
    LET a == Abs(ChangeOf(stock))
    IN  Min(5 + (IF a > 2000 THEN 3 ELSE 0) + (IF a > 1000 THEN 2 ELSE 0)
              + VolumeBonusOf(stock), 10)

\* the per-quote score when the larger move bonus excludes the smaller
ScoreAddingLargest(stock) ==
    LET a == Abs(ChangeOf(stock))
    IN  Min(5 + (IF a > 2000 THEN 3 ELSE IF a > 1000 THEN 2 ELSE 0)
              + VolumeBonusOf(stock), 10)

\* C22: for every well-formed quote list, assessRisk gives each quote a score
\* that starts at 5, adds 3 if |changePercent| > 20, adds 2 if |changePercent|
\* > 10, adds 1 if the volume text contains "억" or "M", capped at 10; the
\* overall score is the mean of the per-quote scores, and 5 for an empty list.
C22_ScoreAddsEachBonus ==
    (toolCall.tool = "risk_assessor" /\ WellFormedList(toolCall.input)) =>
        LET items == toolCall.input.json.items
            expected == [i \in 1..Len(items) |-> ScoreAddingEach(items[i])]
        IN  /\ ~toolCall.out.raised
            /\ ~toolCall.out.is_error_text
            /\ toolCall.out.value.overall_risk_score = MeanOrFive(expected)

\* C22 as amended: the score starts at 5, adds 3 if |changePercent| > 20,
\* otherwise adds 2 if |changePercent| > 10, adds 1 if the volume text
\* contains "억" or "M"; the overall score is the mean of the per-quote
\* scores, and 5 for an empty list.
C22_ScoreAddsLargestMoveBonus ==
    (toolCall.tool = "risk_assessor" /\ WellFormedList(toolCall.input)) =>
        LET items == toolCall.input.json.items
            expected == [i \in 1..Len(items) |-> ScoreAddingLargest(items[i])]
        IN  /\ ~toolCall.out.raised
            /\ ~toolCall.out.is_error_text
            /\ toolCall.out.value.overall_risk_score = MeanOrFive(expected)

\* a quote at -20.01% with volume "12억" (score 9) and one at +10.00% with a
\* plain volume (score 5): overall 14 / 2
C22_Witness ==
    /\ toolCall.tool = "risk_assessor"
    /\ WellFormedList(toolCall.input)
    /\ Len(toolCall.input.json.items) = 2
    /\ toolCall.input.json.items[1] =
            Dict("A", Str(SignedChangeText(0 - 2001)), Str(<<"1", "2", "Eok">>))
    /\ toolCall.input.json.items[2] =
            Dict("A", Str(SignedChangeText(1000)), Str(Grouped(1500000)))
    /\ toolCall.out.value.overall_risk_score = [num |-> 14, den |-> 2]

\* C27: every per-quote score computed by assessRisk lies in 5..9 (the >20
\* and >10 bonuses exclude each other), so the cap at 10 never takes effect
\* and the "relatively stable" recommendation is emitted for no input.
C27_ScoresBetweenFiveAndNine ==
    (toolCall.tool = "risk_assessor" /\ ~toolCall.out.is_error_text) =>
        LET v == toolCall.out.value
        IN  /\ ~toolCall.out.raised
            /\ \A i \in 1..Len(v.scores) : v.scores[i] \in 5..9
            /\ v.overall_risk_score = MeanOrFive(v.scores)
            /\ \A i \in 1..Len(v.recommendations) :
                    v.recommendations[i].advice # "relatively_stable"

\* both ends of the range in one list: +20.01% with "1.5M" scores 9, +5.00%
\* with a plain volume scores 5
C27_Witness ==
    /\ toolCall.tool = "risk_assessor"
    /\ ~toolCall.out.is_error_text
    /\ toolCall.out.value.scores = <<9, 5>>
    /\ toolCall.input.json.items[1].change = Str(SignedChangeText(2001))
    /\ Len(toolCall.out.value.recommendations) = 1

----------------------------------------------------------------------------
(* StockAnalysisAgent (agent_service.py): one run of analyze_market or      *)
(* analyze_stock on the executor that _create_agent builds                  *)

\* settings.agent_max_iterations
agent_max_iterations == 10

\* the deployment may configure any limit from 1 to MaxConfigured, or keep the default
MaxConfigured == 3

\* initialize_agent(tools=, llm=, agent=, memory=, verbose=, handle_parsing_errors=,
\* agent_kwargs=) is given no max_iterations and no max_execution_time: the
\* AgentExecutor keeps the library's own limit of 15 steps and no time limit
ExecutorMaxIterations == 15

\* _create_agent: the executor, whatever the settings say
create_agent(settings) ==
    [tools |-> ToolNames, handle_parsing_errors |-> TRUE,
     max_iterations |-> ExecutorMaxIterations]

AgentEntries == {"analyze_market", "analyze_stock"}

\* a mocked LLM that requests the same tool at every step, or one free to
\* request a tool, give a final answer or fail
LlmBehaviours == {"always_tool", "free"}

\* what the LLM may pass to each tool
AgentToolInputs(tool) ==
    IF tool = "stock_data_collector" THEN {{"geupdeung"}, {"geuprak"}}
    ELSE IF tool = "news_analyzer" THEN {"A"}
    ELSE { [is_str |-> TRUE, json |-> [kind |-> "malformed", items |-> <<>>]],
           [is_str |-> TRUE, json |-> [kind |-> "list", items |->
                <<Dict("A", Str(SignedChangeText(1001)), Str(Grouped(1500000)))>>]] }

ToolRun(tool, input) ==
    IF tool = "stock_data_collector" THEN StockDataTool_run(input)
    ELSE IF tool = "news_analyzer" THEN NewsAnalysisTool_run(input)
    ELSE IF tool = "technical_analyzer" THEN TechnicalAnalysisTool_run(input)
    ELSE RiskAssessmentTool_run(input)

AgentIdleState == [status |-> "idle"]

AgentInit ==
    /\ agentCfg \in [agent_max_iterations : {agent_max_iterations} \cup 1..MaxConfigured]
    /\ agent = AgentIdleState

\* StockAnalysisAgent(...) ; await self.agent.arun(query)
AgentStart ==
    /\ agent.status = "idle"
    /\ \E entry \in AgentEntries, llm \in LlmBehaviours :
        agent' = [status |-> "running", entry |-> entry, llm |-> llm,
                  executor |-> create_agent(agentCfg),
                  iterations |-> 0, tool_steps |-> 0,
                  last_tool |-> None, last_observation_is_error |-> FALSE,
                  output |-> None]
    /\ UNCHANGED agentCfg

\* the executor runs the requested tool and records the observation; a tool
\* that raised would end arun in the except clause of analyze_market
AgentAfterTool(a, tool, input) ==
    IF ToolRun(tool, input).raised
        THEN [a EXCEPT !.status = "returned", !.output = "analysis_error"]
    ELSE [a EXCEPT !.iterations = @ + 1,
                   !.tool_steps = @ + 1,
                   !.last_tool = tool,
                   !.last_observation_is_error = ToolRun(tool, input).is_error_text]

\* the LLM requests a tool
AgentToolStep ==
    /\ agent.status = "running"
    /\ agent.iterations < agent.executor.max_iterations
    /\ \E tool \in agent.executor.tools :
        /\ (agent.llm = "always_tool" /\ agent.last_tool # None) => tool = agent.last_tool
        /\ \E input \in AgentToolInputs(tool) :
            agent' = AgentAfterTool(agent, tool, input)
    /\ UNCHANGED agentCfg

\* the LLM gives its final answer: arun returns it
AgentFinalAnswer ==
    /\ agent.status = "running"
    /\ agent.llm = "free"
    /\ agent.iterations < agent.executor.max_iterations
    /\ agent' = [agent EXCEPT !.status = "returned", !.output = "final_answer"]
    /\ UNCHANGED agentCfg

\* the LLM call fails: arun raises, and the except clause returns
\* "분석 중 오류가 발생했습니다: ..."   analysis_error
AgentLlmError ==
    /\ agent.status = "running"
    /\ agent.llm = "free"
    /\ agent.iterations < agent.executor.max_iterations
    /\ agent' = [agent EXCEPT !.status = "returned", !.output = "analysis_error"]
    /\ UNCHANGED agentCfg

\* the executor's limit is reached: arun returns the stop message
\* "Agent stopped due to iteration limit or time limit."   agent_stopped_limit
AgentStopped ==
    /\ agent.status = "running"
    /\ agent.iterations >= agent.executor.max_iterations
    /\ agent' = [agent EXCEPT !.status = "returned", !.output = "agent_stopped_limit"]
    /\ UNCHANGED agentCfg

----------------------------------------------------------------------------
(* Claims about the agent run (SpecAgent) *)

\* C6: when the LLM requests a tool at every step and never gives a final
\* answer, the run ends after exactly the configured agent_max_iterations tool
\* steps and returns a result flagged as truncated.
C6_StopsAtConfiguredMaxIterations ==
    (agent.status = "returned" /\ agent.llm = "always_tool") =>
        /\ agent.tool_steps = agentCfg.agent_max_iterations
        /\ agent.output = "agent_stopped_limit"

----------------------------------------------------------------------------
(* MultiAgentSystem (agent_service.py): comprehensive_analysis and          *)
(* collaborative_analysis; each await of agent.arun is one step             *)

AgentOrder ==
    <<"data_collector", "news_analyst", "technical_analyst", "risk_analyst",
      "investment_advisor">>

StageKeys ==
    <<"data_collection", "news_analysis", "technical_analysis", "risk_assessment",
      "investment_advice">>

StageCount == Len(AgentOrder)

\* await agent.arun(prompt) returns the agent's text or raises
RunOutcomes == {"returns", "raises"}

AgentOutput(agent_name) == [kind |-> "output", by |-> agent_name]

Text(t) == [kind |-> "text", text |-> t]

Argument(a) == [kind |-> "argument", text |-> a]

MultiArguments == {"A", "B"}

MultiIdleState == [status |-> "idle"]

MultiInit == multi = MultiIdleState

Event(what, stage) == [what |-> what, stage |-> stage]

\* --- comprehensive_analysis ---

\* results[agent_name] = result, or in the except clause
\* results[agent_name] = f"분석 실패: {str(e)}"   analysis_failed
ComprehensiveSlot(agent_name, outcome) ==
    IF outcome = "returns" THEN AgentOutput(agent_name)
    ELSE [kind |-> "error_text", by |-> agent_name]

\* ComprehensiveContinues without the try inside the loop: a failure ends it
ComprehensiveContinues_abort(outcome) == outcome = "returns"

\* whether the for loop goes on to the next agent after this outcome: the
\* try / except inside the loop body lets it go on in both cases
ComprehensiveContinues(outcome) == outcome \in RunOutcomes

\* "멀티 에이전트 시스템을 통한 종합 분석이 완료되었습니다."   comprehensive_done
ComprehensiveResult(query, results) ==
    [query |-> query, analysis_results |-> results, timestamp |-> "now",
     summary |-> "comprehensive_done"]

ComprehensiveStart ==
    /\ multi.status = "idle"
    /\ \E query \in MultiArguments :
        multi' = [status |-> "awaiting", mode |-> "comprehensive", argument |-> query,
                  stage |-> 1,
                  prompts |-> <<<<Argument(query)>>>>,
                  log |-> <<Event("start", 1)>>,
                  raised_at |-> {},
                  results |-> <<>>,
                  result |-> None]

\* agents[stage].arun(query) ends; its slot is filled and the next agent is run,
\* or the result is built after the last one
ComprehensiveAgentEnds ==
    /\ multi.status = "awaiting" /\ multi.mode = "comprehensive"
    /\ \E outcome \in RunOutcomes :
        LET name    == AgentOrder[multi.stage]
            results == multi.results @@ (name :> ComprehensiveSlot(name, outcome))
            raised  == IF outcome = "raises" THEN multi.raised_at \cup {name}
                       ELSE multi.raised_at
            log     == Append(multi.log, Event("end", multi.stage))
        IN  IF multi.stage < StageCount /\ ComprehensiveContinues(outcome)
                THEN multi' = [multi EXCEPT
                                !.stage = @ + 1,
                                !.prompts = Append(@, <<Argument(multi.argument)>>),
                                !.log = Append(log, Event("start", multi.stage + 1)),
                                !.raised_at = raised,
                                !.results = results]
            ELSE multi' = [multi EXCEPT
                                !.status = "returned",
                                !.log = log,
                                !.raised_at = raised,
                                !.results = results,
                                !.result = ComprehensiveResult(multi.argument, results)]

\* --- collaborative_analysis ---

\* the f-string handed to each stage's agent
\*   1 f"{stock_name} 관련 주식 데이터를 수집해주세요"          collect_stock_data
\*   2 f"{stock_name}에 대한 뉴스를 분석해주세요"               analyze_news
\*   3 f"{stock_name}의 기술적 분석을 수행해주세요"             do_technical_analysis
\*   4 f"{stock_name}의 위험도를 평가해주세요"                  assess_risk
\*   5 f"위의 모든 분석 결과를 바탕으로 {stock_name}에 대한 투자 조언을 제공해주세요"
\*                               based_on_all_results_above ... give_investment_advice
CollaborativePrompt(stage, stock_name) ==
    IF stage = 1 THEN <<Argument(stock_name), Text("collect_stock_data")>>
    ELSE IF stage = 2 THEN <<Argument(stock_name), Text("analyze_news")>>
    ELSE IF stage = 3 THEN <<Argument(stock_name), Text("do_technical_analysis")>>
    ELSE IF stage = 4 THEN <<Argument(stock_name), Text("assess_risk")>>
    ELSE <<Text("based_on_all_results_above"), Argument(stock_name),
           Text("give_investment_advice")>>

\* after a stage raises, collaborative_analysis with a try around each stage
\* alone: the stage's slot takes the error text and the next stage is run
CollaborativeAfterRaise_perStage(m) ==
    LET outputs == Append(m.results, [kind |-> "error_text", by |-> AgentOrder[m.stage]])
        log     == Append(m.log, Event("end", m.stage))
    IN  IF m.stage < StageCount
            THEN [m EXCEPT !.stage = @ + 1,
                           !.prompts = Append(@, CollaborativePrompt(m.stage + 1, m.argument)),
                           !.log = Append(log, Event("start", m.stage + 1)),
                           !.raised_at = @ \cup {AgentOrder[m.stage]},
                           !.results = outputs]
        ELSE [m EXCEPT !.status = "returned",
                       !.log = log,
                       !.raised_at = @ \cup {AgentOrder[m.stage]},
                       !.results = outputs,
                       !.result = [stock_name |-> m.argument,
                                   analysis_steps |->
                                       [k \in {StageKeys[i] : i \in 1..StageCount} |->
                                           outputs[CHOOSE i \in 1..StageCount : StageKeys[i] = k]],
                                   timestamp |-> "now"]]

\* a stage raises: the one except clause of the function returns
\* {"error": f"협업 분석 중 오류가 발생했습니다: ..."}   collaborative_analysis_error
CollaborativeAfterRaise(m) ==
    [m EXCEPT !.status = "returned",
              !.log = Append(@, Event("end", m.stage)),
              !.raised_at = @ \cup {AgentOrder[m.stage]},
              !.result = [error |-> [kind |-> "error_text",
                                     message |-> "collaborative_analysis_error"]]]

\* CollaborativeAfterReturn with the next stage's task created before the
\* current await has completed (stages overlapping instead of awaited in turn)
CollaborativeAfterReturn_overlapped(m) ==
    LET outputs == Append(m.results, AgentOutput(AgentOrder[m.stage]))
    IN  IF m.stage < StageCount
            THEN [m EXCEPT !.stage = @ + 1,
                           !.prompts = Append(@, CollaborativePrompt(m.stage + 1, m.argument)),
                           !.log = Append(Append(@, Event("start", m.stage + 1)),
                                          Event("end", m.stage)),
                           !.results = outputs]
        ELSE [m EXCEPT !.status = "returned",
                       !.log = Append(@, Event("end", m.stage)),
                       !.results = outputs,
                       !.result = [stock_name |-> m.argument,
                                   analysis_steps |->
                                       [k \in {StageKeys[i] : i \in 1..StageCount} |->
                                           outputs[CHOOSE i \in 1..StageCount : StageKeys[i] = k]],
                                   timestamp |-> "now"]]

\* a stage returns: its text is kept in a local variable and the next stage
\* is run, or the dictionary of the five steps is returned after the last one
CollaborativeAfterReturn(m) ==
    LET outputs == Append(m.results, AgentOutput(AgentOrder[m.stage]))
        log     == Append(m.log, Event("end", m.stage))
    IN  IF m.stage < StageCount
            THEN [m EXCEPT !.stage = @ + 1,
                           !.prompts = Append(@, CollaborativePrompt(m.stage + 1, m.argument)),
                           !.log = Append(log, Event("start", m.stage + 1)),
                           !.results = outputs]
        ELSE [m EXCEPT !.status = "returned",
                       !.log = log,
                       !.results = outputs,
                       !.result = [stock_name |-> m.argument,
                                   analysis_steps |->
                                       [k \in {StageKeys[i] : i \in 1..StageCount} |->
                                           outputs[CHOOSE i \in 1..StageCount : StageKeys[i] = k]],
                                   timestamp |-> "now"]]

CollaborativeStart ==
    /\ multi.status = "idle"
    /\ \E stock_name \in MultiArguments :
        multi' = [status |-> "awaiting", mode |-> "collaborative", argument |-> stock_name,
                  stage |-> 1,
                  prompts |-> <<CollaborativePrompt(1, stock_name)>>,
                  log |-> <<Event("start", 1)>>,
                  raised_at |-> {},
                  results |-> <<>>,
                  result |-> None]

CollaborativeStageReturns ==
    /\ multi.status = "awaiting" /\ multi.mode = "collaborative"
    /\ multi' = CollaborativeAfterReturn(multi)

CollaborativeStageRaises ==
    /\ multi.status = "awaiting" /\ multi.mode = "collaborative"
    /\ multi' = CollaborativeAfterRaise(multi)

----------------------------------------------------------------------------
(* Claims about the multi-agent runs (SpecMulti) *)

Range(q) == {q[i] : i \in 1..Len(q)}

AgentNames == Range(AgentOrder)

StageIndex(agent_name) == CHOOSE i \in 1..StageCount : AgentOrder[i] = agent_name

C9_ComprehensiveKeepsAllAgents ==
    (multi.status = "returned" /\ multi.mode = "comprehensive") =>
        /\ DOMAIN multi.result.analysis_results = AgentNames
        /\ \A a \in AgentNames :
                IF a \in multi.raised_at
                    THEN multi.result.analysis_results[a].kind = "error_text"
                ELSE multi.result.analysis_results[a] = AgentOutput(a)
        /\ Len(multi.prompts) = StageCount
        /\ multi.result.summary = "comprehensive_done"

C9_Witness ==
    /\ multi.status = "returned" /\ multi.mode = "comprehensive"
    /\ multi.raised_at = {"data_collector", "technical_analyst"}
    /\ multi.result.analysis_results["investment_advisor"] = AgentOutput("investment_advisor")

\* C10: in a collaborative run the prompt of each stage after the first
\* contains the output of the stage before it, and the prompt of the fifth
\* stage contains the outputs of all four stages before it.
C10_PromptsCarryPriorOutputs ==
    (multi.status # "idle" /\ multi.mode = "collaborative") =>
        \A k \in 2..Len(multi.prompts) :
            /\ AgentOutput(AgentOrder[k - 1]) \in Range(multi.prompts[k])
            /\ (k = StageCount) =>
                    \A j \in 1..(StageCount - 1) :
                        AgentOutput(AgentOrder[j]) \in Range(multi.prompts[k])

\* C11: within one collaborative run the stages start in the order data
\* collector, news analyst, technical analyst, risk analyst, investment
\* advisor, each with its own stage's prompt, and a stage starts only after
\* the stage before it has ended: the events of the run are start 1, end 1,
\* start 2, end 2, ... with no gap and no overlap.
C11_StagesStartInOrderAfterPrevious ==
    (multi.status # "idle" /\ multi.mode = "collaborative") =>
        LET starts == SelectSeq(multi.log, LAMBDA e : e.what = "start")
        IN  /\ \A i \in 1..Len(multi.log) :
                    multi.log[i] = Event(IF i % 2 = 1 THEN "start" ELSE "end", (i + 1) \div 2)
            /\ Len(starts) <= 5
            /\ \A k \in 1..Len(starts) :
                    /\ AgentOrder[starts[k].stage] =
                            <<"data_collector", "news_analyst", "technical_analyst",
                              "risk_analyst", "investment_advisor">>[k]
                    /\ multi.prompts[k] = CollaborativePrompt(k, multi.argument)
            /\ Len(multi.prompts) = Len(starts)

C11_Witness ==
    /\ multi.status = "returned" /\ multi.mode = "collaborative"
    /\ multi.raised_at = {}
    /\ Len(multi.log) = 10
    /\ multi.log[9] = Event("start", 5)

----------------------------------------------------------------------------
(* Conversation memory: StockAnalysisAgent.memory (ConversationBufferMemory, *)
(* handed to the executor) and LangChainAIService.memory                     *)
(* (ConversationSummaryMemory, handed to no chain)                           *)

\* at most MaxOps operations on the two memories in one behaviour
MaxOps == 3

HumanMessage(content) == [type |-> "HumanMessage", content |-> content]

AIMessage(content) == [type |-> "AIMessage", content |-> content]

\* the input of arun: analyze_market passes the query as it is, analyze_stock
\*   f"{stock_name}에 대한 종합적인 분석을 수행해주세요. ..."   do_comprehensive_analysis
AgentQuery(entry, argument) ==
    IF entry = "analyze_market" THEN <<Argument(argument)>>
    ELSE <<Argument(argument), Text("do_comprehensive_analysis")>>

AgentCalls ==
    { [entry |-> "analyze_market", argument |-> a] : a \in {"A", "B"} }
        \cup { [entry |-> "analyze_stock", argument |-> "A"] }

\* how arun ends: the outputs of a run of the executor (see AgentFinalAnswer,
\* AgentStopped) or an exception (see AgentLlmError)
ArunOutcomes == {"final_answer", "agent_stopped_limit", "raises"}

\* save_context with the new turn put in front of the history
save_context_prepend(messages, input, output) ==
    <<HumanMessage(input), AIMessage(output)>> \o messages

\* the executor saves a completed turn into its memory: the input as a
\* HumanMessage and the output as an AIMessage, at the end of the history
save_context(messages, input, output) ==
    messages \o <<HumanMessage(input), AIMessage(output)>>

\* await self.agent.arun(query) inside try / except: a run that raises saves
\* nothing and the except clause returns the error text
AgentRun(messages, call, outcome) ==
    IF outcome = "raises"
        THEN [messages |-> messages, returned |-> "analysis_error"]
    ELSE [messages |-> save_context(messages, AgentQuery(call.entry, call.argument), outcome),
          returned |-> outcome]

\* self.memory.clear()
clear_memory(messages) == <<>>

\* return self.memory.chat_memory.messages
get_conversation_history(messages) == messages

MemoryOwners == {"agent", "service"}

MemoryInit ==
    memory = [messages |-> [o \in MemoryOwners |-> <<>>], ops |-> <<>>]

Op(owner, op, call, outcome, returned) ==
    [owner |-> owner, op |-> op, call |-> call, outcome |-> outcome, returned |-> returned]

NoAgentCall == [entry |-> None, argument |-> None]

\* StockAnalysisAgent.analyze_market / analyze_stock
AgentAnalyze ==
    /\ Len(memory.ops) < MaxOps
    /\ \E call \in AgentCalls, outcome \in ArunOutcomes :
        LET r == AgentRun(memory.messages["agent"], call, outcome)
        IN  memory' = [messages |-> [memory.messages EXCEPT !["agent"] = r.messages],
                       ops |-> Append(memory.ops,
                                      Op("agent", "run", call, outcome, <<>>))]

\* StockAnalysisAgent.clear_memory, LangChainAIService.clear_memory
ClearMemory ==
    /\ Len(memory.ops) < MaxOps
    /\ \E owner \in MemoryOwners :
        memory' = [messages |-> [memory.messages EXCEPT ![owner] = clear_memory(@)],
                   ops |-> Append(memory.ops,
                                  Op(owner, "clear", NoAgentCall, None, <<>>))]

\* StockAnalysisAgent.get_conversation_history,
\* LangChainAIService.get_conversation_history
GetConversationHistory ==
    /\ Len(memory.ops) < MaxOps
    /\ \E owner \in MemoryOwners :
        memory' = [messages |-> memory.messages,
                   ops |-> Append(memory.ops,
                                  Op(owner, "get", NoAgentCall, None,
                                     get_conversation_history(memory.messages[owner])))]

\* LangChainAIService.analyze_stock_with_chain: sequential_chain is built
\* without memory, so the service's memory is not written
ServiceAnalyze ==
    /\ Len(memory.ops) < MaxOps
    /\ \E outcome \in {"returns", "raises"} :
        memory' = [messages |-> memory.messages,
                   ops |-> Append(memory.ops,
                                  Op("service", "analyze", NoAgentCall, outcome, <<>>))]

----------------------------------------------------------------------------
(* Claims about the conversation memory (SpecMemory) *)

\* the turns of an append-only log with reset after the operations ops: a
\* completed run appends its turn, clear empties the log, nothing else counts
RECURSIVE LogAfter(_, _)
LogAfter(ops, owner) ==
    IF ops = <<>> THEN <<>>
    ELSE LET before == LogAfter(SubSeq(ops, 1, Len(ops) - 1), owner)
             o == ops[Len(ops)]
         IN  IF o.owner # owner THEN before
             ELSE IF o.op = "clear" THEN <<>>
             ELSE IF o.op = "run" /\ o.outcome # "raises"
                 THEN before \o <<HumanMessage(AgentQuery(o.call.entry, o.call.argument)),
                                  AIMessage(o.outcome)>>
             ELSE before

\* C12: each memory is an append-only log with reset.  The history read by
\* get_conversation_history is the turns completed since the last clear, in
\* the order they completed; read right after clear it is empty; a run that
\* raised, a read, the service's chain analysis and operations on the other
\* memory leave it unchanged.
C12_MemoryIsAppendOnlyLogWithReset ==
    /\ \A owner \in MemoryOwners : memory.messages[owner] = LogAfter(memory.ops, owner)
    /\ \A i \in 1..Len(memory.ops) :
            memory.ops[i].op = "get" =>
                /\ memory.ops[i].returned =
                        LogAfter(SubSeq(memory.ops, 1, i - 1), memory.ops[i].owner)
                /\ (i > 1 /\ memory.ops[i - 1].op = "clear"
                        /\ memory.ops[i - 1].owner = memory.ops[i].owner) =>
                            memory.ops[i].returned = <<>>

C12_Witness ==
    /\ Len(memory.ops) = 3
    /\ memory.ops[1].op = "run" /\ memory.ops[1].call.argument = "A"
    /\ memory.ops[2].op = "run" /\ memory.ops[2].call.argument = "B"
    /\ memory.ops[3].op = "get" /\ memory.ops[3].owner = "agent"
    /\ memory.ops[3].returned =
            << HumanMessage(<<Argument("A")>>), AIMessage("final_answer"),
               HumanMessage(<<Argument("B")>>), AIMessage("agent_stopped_limit") >>

----------------------------------------------------------------------------
(* LangChainAIService (langchain_ai_service.py): the vector store,          *)
(* _add_to_knowledge_base and get_contextual_analysis                        *)

\* an analysis is split into at most MaxChunks documents
MaxChunks == 2

\* settings.rag_search_kwargs = {"k": 3}
rag_k == 3

\* the two analysis requests that index into the store
Requests == {1, 2}

\* _init_vectorstore: Chroma(...) in try / except; a failure leaves None
init_vectorstore(chromaEnv) == IF chromaEnv = "ok" THEN "Chroma" ELSE None

EmptyMetadata == [stock_name |-> None, analysis_type |-> None, timestamp |-> None]

\* the analysis texts a chain returns; the splitter is deterministic, so the
\* number of chunks is a function of the text
AnalysisTexts == {"T1", "T2"}

ChunksOf(analysis) == IF analysis = "T1" THEN 1 ELSE MaxChunks

\* AnalysisMetadata with the analysis_type of analyze_stock_with_chain fixed
\* to "rising", whatever the sign of stock.change
AnalysisMetadata_signIgnored(entry, stock_name, change_sign) ==
    [stock_name |-> stock_name,
     analysis_type |-> IF entry = "analyze_falling_stock_with_chain" THEN "falling"
                       ELSE "rising",
     timestamp |-> "now"]

\* analyze_stock_with_chain:  "rising" if not stock.change.startswith('-') else "falling"
\* analyze_falling_stock_with_chain:  "falling"
AnalysisMetadata(entry, stock_name, change_sign) ==
    [stock_name |-> stock_name,
     analysis_type |-> IF entry = "analyze_falling_stock_with_chain" THEN "falling"
                       ELSE IF change_sign # "-" THEN "rising" ELSE "falling",
     timestamp |-> "now"]

\* text_splitter.create_documents([content]): the chunks of this analysis, in
\* order, each a new Document with empty metadata; page_content is the chunk's
\* text, id stands for the fresh id the store gives the document of call r
create_documents(r, analysis) ==
    [c \in 1..ChunksOf(analysis) |->
        [id |-> [analysis |-> r, part |-> c],
         page_content |-> [text |-> analysis, part |-> c],
         metadata |-> EmptyMetadata]]

\* for doc in documents: doc.metadata.update(metadata)
update_metadata(documents, metadata) ==
    [c \in 1..Len(documents) |-> [documents[c] EXCEPT !.metadata = metadata]]

\* add_documents writing the collection back from this call's documents alone
add_documents_replace(docs, documents) == documents

\* add_documents leaving out a document whose text and metadata are stored
\* already
add_documents_dedup(docs, documents) ==
    docs \o SelectSeq(documents,
                LAMBDA d : \A i \in 1..Len(docs) :
                    \/ docs[i].page_content # d.page_content
                    \/ docs[i].metadata # d.metadata)

\* self.vectorstore.add_documents(documents): one upsert of all the documents
add_documents(docs, documents) == docs \o documents

\* what a call of analyze_*_with_chain was given and what its chain produced
NoChainCall == [entry |-> None, stock_name |-> None, change_sign |-> None, analysis |-> None]

\* how the call ended: return analysis / raise OpenAIException(...)
Pending == [state |-> "pending", value |-> None]
ReturnedText(analysis) == [state |-> "returned", value |-> analysis]
RaisedOpenAI == [state |-> "raised", value |-> "OpenAIException"]

IdleRequest ==
    [pc |-> "idle", metadata |-> EmptyMetadata, chunks |-> 0, documents |-> <<>>,
     outcome |-> None, call |-> NoChainCall, result |-> Pending]

NoStats == [made |-> FALSE]

\* get_vectorstore_stats: {"status": "not_initialized"} without vector store,
\* {"status": "active", "document_count": collection.count(), ...}, or
\* {"status": "error", ...} when the count raises
get_vectorstore_stats(vectorstore, docs, countEnv) ==
    IF vectorstore = None
        THEN [made |-> TRUE, raised |-> FALSE, status |-> "not_initialized",
              has_count |-> FALSE, document_count |-> 0]
    ELSE IF countEnv = "answers"
        THEN [made |-> TRUE, raised |-> FALSE, status |-> "active",
              has_count |-> TRUE, document_count |-> Len(docs)]
    ELSE [made |-> TRUE, raised |-> FALSE, status |-> "error",
          has_count |-> FALSE, document_count |-> 0]

NoQuery == [made |-> FALSE]

\* get_contextual_analysis without its first test: on a service without
\* vector store self.rag_chain does not exist, the AttributeError is caught
\* and the error text is returned
get_contextual_analysis_unguarded(vectorstore, docs, chainEnv) ==
    IF vectorstore = None
        THEN [made |-> TRUE, raised |-> FALSE, text |-> <<"analysis_error", "cause">>,
              chain_calls |-> 0, context |-> 0, stored |-> Len(docs)]
    ELSE IF chainEnv = "answers"
        THEN [made |-> TRUE, raised |-> FALSE, text |-> <<"llm_answer">>,
              chain_calls |-> 1, context |-> Min(rag_k, Len(docs)),
              stored |-> Len(docs)]
    ELSE [made |-> TRUE, raised |-> FALSE, text |-> <<"analysis_error", "cause">>,
          chain_calls |-> 1, context |-> 0, stored |-> Len(docs)]

\* get_contextual_analysis: the text returned
\*   "RAG 시스템이 초기화되지 않았습니다."     rag_not_initialized
\*   f"분석 중 오류가 발생했습니다: {str(e)}"  analysis_error
\* context is the number of documents the retriever hands to the chain,
\* stored the number of documents in the store when the query was made
get_contextual_analysis(vectorstore, docs, chainEnv) ==
    IF vectorstore = None
        THEN [made |-> TRUE, raised |-> FALSE, text |-> <<"rag_not_initialized">>,
              chain_calls |-> 0, context |-> 0, stored |-> Len(docs)]
    ELSE IF chainEnv = "answers"
        THEN [made |-> TRUE, raised |-> FALSE, text |-> <<"llm_answer">>,
              chain_calls |-> 1, context |-> Min(rag_k, Len(docs)),
              stored |-> Len(docs)]
    ELSE [made |-> TRUE, raised |-> FALSE, text |-> <<"analysis_error", "cause">>,
          chain_calls |-> 1, context |-> 0, stored |-> Len(docs)]

\* LangChainAIService.__init__; constructed records how Chroma(...) ended
StoreInit ==
    \E chromaEnv \in {"ok", "fails"} :
        rag = [constructed |-> chromaEnv,
               vectorstore |-> init_vectorstore(chromaEnv),
               docs |-> <<>>,
               req |-> [r \in Requests |-> IdleRequest],
               query |-> NoQuery,
               stats |-> NoStats]

ChainEntries == {"analyze_stock_with_chain", "analyze_falling_stock_with_chain"}

\* analyze_stock_with_chain / analyze_falling_stock_with_chain: the chain has
\* produced the analysis and _add_to_knowledge_base(analysis, {...}) is
\* entered; it returns at once when there is no vector store, and the
\* analysis is returned
IndexAfterStart(g, r, entry, stock_name, change_sign, analysis) ==
    LET call == [entry |-> entry, stock_name |-> stock_name,
                 change_sign |-> change_sign, analysis |-> analysis]
    IN  [g EXCEPT !.req[r] =
            IF g.vectorstore = None
                THEN [IdleRequest EXCEPT
                        !.pc = "done",
                        !.metadata = AnalysisMetadata(entry, stock_name, change_sign),
                        !.chunks = ChunksOf(analysis),
                        !.outcome = "skipped",
                        !.call = call,
                        !.result = ReturnedText(analysis)]
            ELSE [IdleRequest EXCEPT
                        !.pc = "split",
                        !.metadata = AnalysisMetadata(entry, stock_name, change_sign),
                        !.chunks = ChunksOf(analysis),
                        !.call = call]]

IndexStart ==
    \E r \in Requests :
        /\ rag.req[r].pc = "idle"
        /\ \E entry \in ChainEntries, stock_name \in StockNames,
              change_sign \in {"+", "-"}, analysis \in AnalysisTexts :
            rag' = IndexAfterStart(rag, r, entry, stock_name, change_sign, analysis)

\* the chain raises: the except clause of analyze_*_with_chain raises
\* OpenAIException and _add_to_knowledge_base is not reached
ChainFails ==
    \E r \in Requests :
        /\ rag.req[r].pc = "idle"
        /\ \E entry \in ChainEntries, stock_name \in StockNames, change_sign \in {"+", "-"} :
            rag' = [rag EXCEPT !.req[r] =
                        [IdleRequest EXCEPT
                            !.pc = "done",
                            !.outcome = "chain_failed",
                            !.call = [entry |-> entry, stock_name |-> stock_name,
                                      change_sign |-> change_sign, analysis |-> None],
                            !.result = RaisedOpenAI]]

\* IndexFailed with the exception leaving _add_to_knowledge_base: the except
\* clause of analyze_*_with_chain turns it into OpenAIException
IndexFailed_propagates(g, r) ==
    [g EXCEPT !.req[r].pc = "done",
              !.req[r].outcome = "add_failed",
              !.req[r].result = RaisedOpenAI]

\* except Exception as e: logger.error(...) in _add_to_knowledge_base, then
\* "return analysis" in the caller
IndexFailed(g, r) ==
    [g EXCEPT !.req[r].pc = "done",
              !.req[r].outcome = "add_failed",
              !.req[r].result = ReturnedText(g.req[r].call.analysis)]

\* documents = text_splitter.create_documents([content])
IndexSplit ==
    \E r \in Requests :
        /\ rag.req[r].pc = "split"
        /\ rag' = [rag EXCEPT !.req[r].documents =
                                    create_documents(r, rag.req[r].call.analysis),
                              !.req[r].pc = "tag"]

\* the splitter raises: the except clause logs it, nothing is stored
IndexSplitFails ==
    \E r \in Requests :
        /\ rag.req[r].pc = "split"
        /\ rag' = IndexFailed(rag, r)

\* if metadata: for doc in documents: doc.metadata.update(metadata)
IndexTag ==
    \E r \in Requests :
        /\ rag.req[r].pc = "tag"
        /\ rag' = [rag EXCEPT !.req[r].documents = update_metadata(@, rag.req[r].metadata),
                              !.req[r].pc = "add"]

\* self.vectorstore.add_documents(documents)
IndexAdd ==
    \E r \in Requests :
        /\ rag.req[r].pc = "add"
        /\ rag' = [rag EXCEPT !.docs = add_documents(@, rag.req[r].documents),
                              !.req[r].pc = "done",
                              !.req[r].outcome = "added",
                              !.req[r].result = ReturnedText(rag.req[r].call.analysis)]

\* add_documents raises (embedding backend, collection): the except clause of
\* _add_to_knowledge_base logs it and the analysis is returned all the same
IndexAddFails ==
    \E r \in Requests :
        /\ rag.req[r].pc = "add"
        /\ rag' = IndexFailed(rag, r)

\* await ai_service.get_contextual_analysis(query)
ContextualQuery ==
    /\ ~rag.query.made
    /\ \E chainEnv \in {"answers", "raises"} :
        rag' = [rag EXCEPT !.query =
                    get_contextual_analysis(rag.vectorstore, rag.docs, chainEnv)]

\* ai_service.get_vectorstore_stats()
VectorstoreStats ==
    /\ ~rag.stats.made
    /\ \E countEnv \in {"answers", "raises"} :
        rag' = [rag EXCEPT !.stats =
                    get_vectorstore_stats(rag.vectorstore, rag.docs, countEnv)]

----------------------------------------------------------------------------
(* Claims about the vector store (SpecStore) *)

C18_ConcurrentIndexKeepsBoth ==
    (\A r \in Requests : rag.req[r].outcome = "added") =>
        /\ Len(rag.docs) = rag.req[1].chunks + rag.req[2].chunks
        /\ \A r \in Requests : \A c \in 1..rag.req[r].chunks :
                Cardinality({i \in 1..Len(rag.docs) :
                                rag.docs[i].id = [analysis |-> r, part |-> c]}) = 1
        /\ \A i \in 1..Len(rag.docs) :
                LET r == rag.docs[i].id.analysis
                IN  /\ rag.docs[i].metadata.stock_name = rag.req[r].metadata.stock_name
                    /\ rag.docs[i].metadata.analysis_type = rag.req[r].metadata.analysis_type
                    /\ rag.docs[i].metadata.stock_name \in StockNames
                    /\ rag.docs[i].metadata.analysis_type \in {"rising", "falling"}

\* both analyses of MaxChunks chunks, for different stocks and kinds, the second
\* request's documents stored before the first's
C18_Witness ==
    /\ \A r \in Requests : rag.req[r].outcome = "added" /\ rag.req[r].chunks = MaxChunks
    /\ rag.req[1].metadata.stock_name = "A" /\ rag.req[1].metadata.analysis_type = "rising"
    /\ rag.req[2].metadata.stock_name = "B" /\ rag.req[2].metadata.analysis_type = "falling"
    /\ Len(rag.docs) = MaxChunks + MaxChunks
    /\ rag.docs[1].id.analysis = 2
    /\ rag.docs[MaxChunks + 1].id.analysis = 1

\* the direction the claim gives a call: by the sign of the quote's change,
\* always falling for the falling-stock chain
DirectionOf(call) ==
    IF call.entry = "analyze_falling_stock_with_chain" THEN "falling"
    ELSE IF call.change_sign = "-" THEN "falling"
    ELSE "rising"

\* every chunk of the analysis of call r is in the store, with its text, the
\* stock's name and the direction
ChunksStoredTagged(r) ==
    LET call == rag.req[r].call
    IN  \A c \in 1..ChunksOf(call.analysis) :
            \E i \in 1..Len(rag.docs) :
                /\ rag.docs[i].id = [analysis |-> r, part |-> c]
                /\ rag.docs[i].page_content = [text |-> call.analysis, part |-> c]
                /\ rag.docs[i].metadata.stock_name = call.stock_name
                /\ rag.docs[i].metadata.analysis_type = DirectionOf(call)

Copies(docs, page_content) ==
    Cardinality({i \in 1..Len(docs) : docs[i].page_content = page_content})

\* two calls that stored the same analysis text leave each of its chunks twice
StoredTwice(g) ==
    (/\ g.req[1].outcome = "added" /\ g.req[2].outcome = "added"
     /\ g.req[1].call.analysis = g.req[2].call.analysis) =>
        \A c \in 1..ChunksOf(g.req[1].call.analysis) :
            Copies(g.docs, [text |-> g.req[1].call.analysis, part |-> c]) = 2

\* C24: the retrieval store is append-only across any sequence of analyses and
\* queries: in every step the documents stored before are still there,
\* unchanged and in place (so the count never decreases), a query or a stats
\* call leaves the store as it was, and indexing the same analysis text twice
\* stores its chunks twice.
C24_StoreIsAppendOnlyWithoutDedup ==
    [][ /\ Len(rag'.docs) >= Len(rag.docs)
        /\ SubSeq(rag'.docs, 1, Len(rag.docs)) = rag.docs
        /\ (rag'.query # rag.query \/ rag'.stats # rag.stats) => rag'.docs = rag.docs
        /\ StoredTwice(rag') ]_vars

\* the same text of MaxChunks chunks stored by both calls with the same tags,
\* then counted by a stats call and read by a query
C24_Witness ==
    /\ \A r \in Requests : rag.req[r].outcome = "added" /\ rag.req[r].call.analysis = "T2"
    /\ rag.req[1].metadata = rag.req[2].metadata
    /\ Len(rag.docs) = MaxChunks + MaxChunks
    /\ rag.stats.made /\ rag.stats.status = "active"
    /\ rag.stats.document_count = MaxChunks + MaxChunks
    /\ rag.query.made /\ rag.query.stored = MaxChunks + MaxChunks

\* C30: a failure while indexing an analysis into the store is swallowed:
\* the call still returns the produced analysis text; and when the store is
\* disabled no indexing is attempted (no document is made or stored) and the
\* analysis is returned unchanged.
C30_IndexingFailureIsSwallowed ==
    \A r \in Requests :
        /\ (rag.req[r].outcome = "add_failed") =>
                /\ rag.req[r].call.analysis \in AnalysisTexts
                /\ rag.req[r].result = ReturnedText(rag.req[r].call.analysis)
        /\ (rag.vectorstore = None) =>
                /\ rag.req[r].pc \in {"idle", "done"}
                /\ rag.req[r].documents = <<>>
                /\ rag.docs = <<>>
                /\ (rag.req[r].pc = "done" /\ rag.req[r].outcome # "chain_failed") =>
                        /\ rag.req[r].outcome = "skipped"
                        /\ rag.req[r].result = ReturnedText(rag.req[r].call.analysis)

\* the first call's add_documents raised and the call returned its text; the
\* second call's documents were stored
C30_Witness ==
    /\ rag.req[1].outcome = "add_failed"
    /\ rag.req[1].documents # <<>>
    /\ rag.req[1].result = ReturnedText("T2")
    /\ rag.req[2].outcome = "added"
    /\ \A i \in 1..Len(rag.docs) : rag.docs[i].id.analysis = 2

----------------------------------------------------------------------------
(* Exceptions (core/exceptions.py) and the error path of the API            *)

\* a function call returns a value or throws an exception object
Returns(v) == [thrown |-> FALSE, value |-> v]

Throws(e) == [thrown |-> TRUE, value |-> e]

\* class StockAnalysisException(Exception): message, status_code
StockAnalysisException(class, message, status_code) ==
    [class |-> class, attrs |-> {"status_code", "message"},
     status_code |-> status_code, message |-> message, detail |-> None]

\* "급등 종목 데이터 수집에 실패했습니다: ..."   rising_fetch_failed
\* "데이터 처리 중 오류가 발생했습니다: ..."     data_processing_error
DataFetchException(message) == StockAnalysisException("DataFetchException", message, 503)

AnalysisException(message) == StockAnalysisException("AnalysisException", message, 500)

OpenAIException(message) == StockAnalysisException("OpenAIException", message, 503)

\* fastapi.HTTPException(status_code=, detail=): it has no attribute message
HTTPException(status_code, detail) ==
    [class |-> "HTTPException", attrs |-> {"status_code", "detail"},
     status_code |-> status_code, message |-> None, detail |-> detail]

\* any other exception (TypeError, ValueError, AttributeError, ...): neither
\* status_code nor message
OtherException(class) ==
    [class |-> class, attrs |-> {}, status_code |-> 0, message |-> None, detail |-> None]

\* create_http_exception: reads exception.status_code and exception.message;
\* on an object without them the attribute access raises AttributeError
create_http_exception(exception) ==
    IF "status_code" \notin exception.attrs \/ "message" \notin exception.attrs
        THEN Throws(OtherException("AttributeError"))
    ELSE Returns(HTTPException(exception.status_code,
                               [error |-> exception.class, message |-> exception.message]))

\* raise create_http_exception(e)
RaiseConverted(e) ==
    LET c == create_http_exception(e)
    IN  IF c.thrown THEN c ELSE Throws(c.value)

\* detail= given as a plain string
DetailText(t) == [text |-> t]

\* the body of a response
JsonBody(v) == [kind |-> "json", content |-> v]
PlainText(t) == [kind |-> "text", content |-> t]

\* main.py: @app.exception_handler(Exception) returns create_http_exception(exc)
global_exception_handler(exc) == create_http_exception(exc)

\* the server's own answer to an exception nothing has turned into a response
ServerErrorResponse == [status |-> 500, body |-> PlainText("Internal Server Error")]

\* what the client receives for the outcome of an endpoint function.
\*   value returned            200 with the value
\*   HTTPException             its status_code with {"detail": detail}
\*   any other exception       global_exception_handler is called: it raises
\*       AttributeError, or returns an HTTPException object, which is no
\*       response; either way the server's own 500 answer is sent
Respond(outcome) ==
    IF ~outcome.thrown
        THEN [status |-> 200, body |-> JsonBody(outcome.value)]
    ELSE IF outcome.value.class = "HTTPException"
        THEN [status |-> outcome.value.status_code,
              body |-> JsonBody([detail |-> outcome.value.detail])]
    ELSE LET h == global_exception_handler(outcome.value)
         IN  IF h.thrown THEN ServerErrorResponse ELSE ServerErrorResponse

----------------------------------------------------------------------------
(* StockService.get_rising_stocks (stock_service.py) and the page it reads   *)

\* a page has up to MaxTail rows of any kind after its block of plain quotes
MaxTail == 2

\* stock_service.get_rising_stocks(count=20) in the analysis endpoints
snapshot_count == 20

\* settings.max_retries
max_retries == 3

\* a row of table.type_2: a quote (at least 10 cells, with the link), a short
\* row (fewer than 10 cells: header, spacer) or a row of at least 10 cells
\* whose name cell has no link
QuoteRow(name, change, volume) ==
    [kind |-> "quote", name |-> name, change |-> change, volume |-> volume]

ShortRow == [kind |-> "short", name |-> None, change |-> <<>>, volume |-> <<>>]

NoLinkRow == [kind |-> "no_link", name |-> None, change |-> <<>>, volume |-> <<>>]

FillerNames ==
    <<"F01", "F02", "F03", "F04", "F05", "F06", "F07", "F08", "F09", "F10", "F11",
      "F12", "F13", "F14", "F15", "F16", "F17", "F18", "F19", "F20", "F21">>

FillerRows(n) ==
    [i \in 1..n |-> QuoteRow(FillerNames[i], ChangeText("+", 1000), Grouped(1000))]

TailRows ==
    { QuoteRow("A", ChangeText("+", 2250), Grouped(1500000)),
      QuoteRow("B", ChangeText("+", 500), Grouped(100000)),
      ShortRow, NoLinkRow }

\* the two rows at the top of the table, which [2:] drops
HeaderRows == <<ShortRow, ShortRow>>

FetchOutcomes == {"ok", "http_error", "timeout", "connection_error"}

\* the page as served: how session.get / raise_for_status end, and the rows
Pages ==
    { [fetch |-> "ok", rows |-> HeaderRows \o FillerRows(n) \o tail] :
        n \in {0, snapshot_count - 1, snapshot_count, snapshot_count + 1},
        tail \in UNION { [1..k -> TailRows] : k \in 0..MaxTail } }
    \cup { [fetch |-> f, rows |-> <<>>] : f \in FetchOutcomes \ {"ok"} }

\* Stock(name=, price=, change=, volume=, link=, created_at=)
StockOf(row) == [name |-> row.name, change |-> row.change, volume |-> row.volume]

\* the second except clause returning what was collected so far
ParseFailure_partial(rising_stocks) == Returns(rising_stocks)

\* except Exception: raise DataFetchException(f"데이터 처리 중 오류가 발생했습니다: ...")
ParseFailure(rising_stocks) == Throws(DataFetchException("data_processing_error"))

\* for row in table: ... ; cols[1].select_one('a')['href'] on a name cell
\* without link is None['href'], a TypeError
RECURSIVE RowsLoop(_, _, _)
RowsLoop(rising_stocks, table, count) ==
    IF table = <<>> THEN Returns(rising_stocks)
    ELSE IF Len(rising_stocks) >= count THEN Returns(rising_stocks)
    ELSE IF Head(table).kind = "short" THEN RowsLoop(rising_stocks, Tail(table), count)
    ELSE IF Head(table).kind = "no_link" THEN ParseFailure(rising_stocks)
    ELSE RowsLoop(Append(rising_stocks, StockOf(Head(table))), Tail(table), count)

\* get_rising_stocks: one session.get, no retry; requests counts the
\* upstream requests issued
get_rising_stocks(page, count) ==
    IF page.fetch # "ok"
        THEN [result |-> Throws(DataFetchException("rising_fetch_failed")), requests |-> 1]
    ELSE [result |-> RowsLoop(<<>>, SubSeq(page.rows, 3, Len(page.rows)), count),
          requests |-> 1]

----------------------------------------------------------------------------
(* Endpoints: stocks.py (rising, analysis) and the agent endpoints of        *)
(* langchain.py                                                              *)

\* the names a client asks for: two that pages of the model can show, one
\* filler beyond the snapshot, one no page shows
RequestedNames == {"A", "B", "F21", "Z"}

RisingCounts == {1, 5, snapshot_count}

\* the deployment's settings.max_retries
RetrySettings == 1..max_retries

AgentEndpoints ==
    {"agent/market-analysis", "agent/stock-analysis",
     "multi-agent/comprehensive-analysis", "multi-agent/collaborative-analysis"}

\* the except clauses of the analysis endpoint without "except HTTPException: raise"
StocksErrorPath_convertAll(e) == RaiseConverted(e)

\* except HTTPException: raise
\* except Exception as e: raise create_http_exception(e)
StocksErrorPath(e) ==
    IF e.class = "HTTPException" THEN Throws(e) ELSE RaiseConverted(e)

\* the only except clause of the other endpoints:
\* except Exception as e: raise create_http_exception(e)
ConvertingErrorPath(e) == RaiseConverted(e)

\* for stock in rising_stocks: if stock.name == stock_name: ... break
FindStock(rising_stocks, stock_name) ==
    LET hits == {i \in 1..Len(rising_stocks) : rising_stocks[i].name = stock_name}
    IN  IF hits = {} THEN [found |-> FALSE, stock |-> None]
        ELSE [found |-> TRUE,
              stock |-> rising_stocks[CHOOSE i \in hits : \A j \in hits : i <= j]]

\* "종목 '{stock_name}'을 급등 종목에서 찾을 수 없습니다."   not_in_rising_list
\* the try block of GET /stocks/{stock_name}/analysis, with the calls it made
AnalysisTry(page, stock_name, use_ai, newsEnv, aiEnv) ==
    LET fetched == get_rising_stocks(page, snapshot_count)
        target  == FindStock(fetched.result.value, stock_name)
        done    == analyze_stock(target.stock, use_ai, newsEnv, aiEnv)
    IN  IF fetched.result.thrown
            THEN [outcome |-> fetched.result, upstream_requests |-> fetched.requests,
                  news_fetches |-> 0, ai_calls |-> 0]
        ELSE IF ~target.found
            THEN [outcome |-> Throws(HTTPException(404, DetailText("not_in_rising_list"))),
                  upstream_requests |-> fetched.requests,
                  news_fetches |-> 0, ai_calls |-> 0]
        ELSE IF done.raised
            THEN [outcome |-> Throws(AnalysisException("analysis_failed")),
                  upstream_requests |-> fetched.requests,
                  news_fetches |-> 1, ai_calls |-> done.ai_calls]
        ELSE [outcome |-> Returns([stock |-> target.stock, analysis |-> done]),
              upstream_requests |-> fetched.requests,
              news_fetches |-> 1, ai_calls |-> done.ai_calls]

\* GET /stocks/{stock_name}/analysis
AnalysisEndpoint(page, stock_name, use_ai, newsEnv, aiEnv) ==
    LET t == AnalysisTry(page, stock_name, use_ai, newsEnv, aiEnv)
    IN  [endpoint |-> "stocks/analysis",
         page |-> page, stock_name |-> stock_name, use_ai |-> use_ai,
         tried |-> t.outcome,
         response |-> Respond(IF t.outcome.thrown THEN StocksErrorPath(t.outcome.value)
                              ELSE t.outcome),
         upstream_requests |-> t.upstream_requests,
         news_fetches |-> t.news_fetches, ai_calls |-> t.ai_calls,
         agents_constructed |-> 0]

\* GET /stocks/rising?count=
RisingEndpoint(page, count, retries) ==
    LET fetched == get_rising_stocks(page, count)
    IN  [endpoint |-> "stocks/rising",
         page |-> page, count |-> count, settings_max_retries |-> retries,
         tried |-> fetched.result,
         response |-> Respond(IF fetched.result.thrown
                                  THEN ConvertingErrorPath(fetched.result.value)
                              ELSE Returns([stocks |-> fetched.result.value,
                                            total_count |-> Len(fetched.result.value)])),
         upstream_requests |-> fetched.requests,
         news_fetches |-> 0, ai_calls |-> 0, agents_constructed |-> 0]

\* "LangChain 서비스가 초기화되지 않았습니다."   langchain_not_initialized
\* the try block of the four agent endpoints: the test of
\* ai_service.langchain_service, the construction of StockAnalysisAgent or
\* MultiAgentSystem, and the run, which returns text or a dictionary
AgentTry(langchain_service, agentEnv) ==
    IF langchain_service = None
        THEN [outcome |-> Throws(HTTPException(503, DetailText("langchain_not_initialized"))),
              agents_constructed |-> 0]
    ELSE IF agentEnv = "construction_fails"
        THEN [outcome |-> Throws(OtherException("ValueError")), agents_constructed |-> 0]
    ELSE [outcome |-> Returns("analysis"), agents_constructed |-> 1]

\* POST /agent/market-analysis, /agent/stock-analysis,
\* /multi-agent/comprehensive-analysis, /multi-agent/collaborative-analysis
AgentEndpoint(endpoint, langchain_service, agentEnv) ==
    LET t == AgentTry(langchain_service, agentEnv)
    IN  [endpoint |-> endpoint,
         langchain_service |-> langchain_service, agentEnv |-> agentEnv,
         tried |-> t.outcome,
         response |-> Respond(IF t.outcome.thrown THEN ConvertingErrorPath(t.outcome.value)
                              ELSE t.outcome),
         upstream_requests |-> 0, news_fetches |-> 0, ai_calls |-> 0,
         agents_constructed |-> t.agents_constructed]

NoRequest == [endpoint |-> None]

ApiInit == http = NoRequest

GetStockAnalysis ==
    /\ http = NoRequest
    /\ \E page \in Pages, stock_name \in RequestedNames, use_ai \in BOOLEAN,
          newsEnv \in NewsEnvs, aiEnv \in AiEnvs :
        http' = AnalysisEndpoint(page, stock_name, use_ai, newsEnv, aiEnv)

GetRisingStocks ==
    /\ http = NoRequest
    /\ \E page \in Pages, count \in RisingCounts, retries \in RetrySettings :
        http' = RisingEndpoint(page, count, retries)

PostAgentAnalysis ==
    /\ http = NoRequest
    /\ \E endpoint \in AgentEndpoints, langchain_service \in {None, "LangChainAIService"},
          agentEnv \in {"runs", "construction_fails"} :
        http' = AgentEndpoint(endpoint, langchain_service, agentEnv)

----------------------------------------------------------------------------
(* Claims about the API (SpecApi) *)

\* the rows of the table below its two header rows
DataRows(page) == SubSeq(page.rows, 3, Len(page.rows))

\* the quotes among the first i rows
QuotesBefore(rows, i) == SelectSeq(SubSeq(rows, 1, i - 1), LAMBDA row : row.kind = "quote")

\* the page can be read up to count quotes: it was fetched, and every row
\* without link lies after the row that completes count quotes
Readable(page, count) ==
    /\ page.fetch = "ok"
    /\ \A i \in 1..Len(DataRows(page)) :
            DataRows(page)[i].kind = "no_link" =>
                Len(QuotesBefore(DataRows(page), i)) >= count

\* the first count quotes of the page, as the page shows them
FirstQuotes(page, count) ==
    LET quotes == QuotesBefore(DataRows(page), Len(DataRows(page)) + 1)
    IN  SubSeq(quotes, 1, Min(count, Len(quotes)))

\* C14: GET /stocks/{name}/analysis answers 404 exactly when the page was
\* read and name is not among its first 20 quotes; that 404 is the handler's
\* own (status 404, its detail text), no news was fetched and no AI call was
\* made for it; a name among the first 20 quotes is analysed.
C14_NotFoundExactlyWhenAbsentFromSnapshot ==
    (http.endpoint = "stocks/analysis") =>
        LET snapshot == FirstQuotes(http.page, 20)
            absent   == \A i \in 1..Len(snapshot) : snapshot[i].name # http.stock_name
        IN  /\ Len(snapshot) <= 20
            /\ (http.response.status = 404) <=> (Readable(http.page, 20) /\ absent)
            /\ (http.response.status = 404) =>
                    /\ http.response.body = JsonBody([detail |-> DetailText("not_in_rising_list")])
                    /\ http.news_fetches = 0
                    /\ http.ai_calls = 0
            /\ (Readable(http.page, 20) /\ ~absent) =>
                    /\ http.response.status = 200
                    /\ http.response.body.content.stock.name = http.stock_name
                    /\ http.news_fetches = 1

\* the name asked for is the 21st quote of the page: on the page, not in the snapshot
C14_Witness ==
    /\ http.endpoint = "stocks/analysis"
    /\ http.stock_name = "F21"
    /\ Len(FirstQuotes(http.page, 21)) = 21
    /\ FirstQuotes(http.page, 21)[21].name = "F21"
    /\ http.use_ai
    /\ http.response.status = 404

\* C15: each of the four agent endpoints, called while
\* ai_service.langchain_service is None, answers 503 and constructs no agent.
C15_AgentEndpointsAnswer503 ==
    (http.endpoint \in AgentEndpoints /\ http.langchain_service = None) =>
        /\ http.response.status = 503
        /\ http.agents_constructed = 0

\* C16: every response that reports a failure carries a kind and a message
\* (detail with the keys error and message), whichever exception the handler
\* met, and an exception that is neither a StockAnalysisException nor an
\* HTTPException is answered with status 500.
C16_FailuresCarryKindAndMessage ==
    (http.endpoint # None) =>
        /\ (http.response.status # 200) =>
                /\ http.response.body.kind = "json"
                /\ DOMAIN http.response.body.content.detail = {"error", "message"}
        /\ (http.tried.thrown /\ http.tried.value.attrs = {}) =>
                http.response.status = 500

\* C17: get_rising_stocks raises exactly when the page could not be fetched
\* or a row without link was met before count quotes were collected; what it
\* raises is DataFetchException with status 503, answered as 503; otherwise it
\* returns the first count quotes of the page, all of them; and one call
\* issues one upstream request, which is within settings.max_retries.
C17_FetchFailureIsDataFetchException ==
    (http.endpoint = "stocks/rising") =>
        /\ http.tried.thrown <=> ~Readable(http.page, http.count)
        /\ http.tried.thrown =>
                /\ http.tried.value.class = "DataFetchException"
                /\ http.tried.value.status_code = 503
                /\ http.response.status = 503
                /\ http.response.body.content.detail.error = "DataFetchException"
        /\ ~http.tried.thrown =>
                /\ Len(http.tried.value) = Len(FirstQuotes(http.page, http.count))
                /\ \A i \in 1..Len(http.tried.value) :
                        http.tried.value[i] = StockOf(FirstQuotes(http.page, http.count)[i])
                /\ http.response.status = 200
        /\ http.upstream_requests = 1
        /\ http.upstream_requests <= http.settings_max_retries

\* a quote was collected before the row without link was met
C17_Witness ==
    /\ http.endpoint = "stocks/rising"
    /\ http.count = 5
    /\ http.page.fetch = "ok"
    /\ Len(DataRows(http.page)) = 2
    /\ DataRows(http.page)[1].kind = "quote"
    /\ DataRows(http.page)[2].kind = "no_link"
    /\ http.tried.thrown
    /\ http.response.status = 503

----------------------------------------------------------------------------
(* AIService (ai_service.py) and the instances a request to the LangChain   *)
(* endpoints constructs (langchain.py): Depends() calls AIService() for     *)
(* every request, the agent endpoints construct a StockAnalysisAgent in the *)
(* handler                                                                   *)

ApiRequests == {1, 2}

\* self.langchain_service: None, or a LangChainAIService with its vector store
NoService == [available |-> FALSE, vectorstore |-> None]

LangChainService(langchainEnv) ==
    [available |-> TRUE,
     vectorstore |-> init_vectorstore(IF langchainEnv = "no_chroma" THEN "fails" ELSE "ok")]

\* how LangChainAIService() ends: constructed, constructed without vector
\* store, or raising (import, ChatOpenAI, embeddings, chains)
LangchainEnvs == {"ok", "no_chroma", "fails"}

\* AIService.__init__ without the try / except around LangChainAIService()
AIService_init_propagates(key_present, langchainEnv) ==
    IF ~key_present THEN Raise("OpenAIException")
    ELSE IF langchainEnv = "fails" THEN Raise("Exception")
    ELSE Ok(LangChainService(langchainEnv))

\* AIService.__init__: raise OpenAIException without settings.open_ai_api_key;
\* LangChainAIService() in try / except Exception, which leaves None
AIService_init(key_present, langchainEnv) ==
    IF ~key_present THEN Raise("OpenAIException")
    ELSE IF langchainEnv = "fails" THEN Ok(NoService)
    ELSE Ok(LangChainService(langchainEnv))

\* what a call gives back: a text, a list of messages or a dict with a status
OpValue(kind, text, messages, status) ==
    [raised |-> FALSE, kind |-> kind, text |-> text, messages |-> messages, status |-> status]

OpRaised(e) ==
    [raised |-> TRUE, kind |-> e, text |-> <<>>, messages |-> <<>>, status |-> None]

NoResponse == OpValue(None, <<>>, <<>>, None)

\* AIService.get_contextual_analysis
\*   "LangChain 서비스가 초기화되지 않았습니다."   langchain_not_initialized
AIService_get_contextual_analysis(langchain_service, chainEnv) ==
    IF ~langchain_service.available
        THEN OpValue("text", <<"langchain_not_initialized">>, <<>>, None)
    ELSE OpValue("text",
                 get_contextual_analysis(langchain_service.vectorstore, <<>>, chainEnv).text,
                 <<>>, None)

\* AIService.get_conversation_history
AIService_get_conversation_history(langchain_service, messages) ==
    IF ~langchain_service.available THEN OpValue("list", <<>>, <<>>, None)
    ELSE OpValue("list", <<>>, get_conversation_history(messages), None)

\* AIService.clear_memory: the messages of the service's memory afterwards
AIService_clear_memory(langchain_service, messages) ==
    IF langchain_service.available THEN clear_memory(messages) ELSE messages

\* AIService.get_vectorstore_stats
AIService_get_vectorstore_stats(langchain_service, countEnv) ==
    IF ~langchain_service.available THEN OpValue("dict", <<>>, <<>>, "not_available")
    ELSE OpValue("dict", <<>>, <<>>,
                 get_vectorstore_stats(langchain_service.vectorstore, <<>>, countEnv).status)

ServiceEndpoints ==
    {"conversation/history", "conversation/clear", "vectorstore/stats", "contextual-analysis"}

AgentMemoryEndpoints ==
    {"agent/market-analysis", "agent/conversation-history", "agent/clear-memory"}

IdleSession ==
    [pc |-> "idle", endpoint |-> None, langchainEnv |-> None, constructed |-> None,
     ai_service |-> NoService, response |-> NoResponse]

NoSessions ==
    [key_present |-> TRUE,
     req |-> [r \in ApiRequests |-> IdleSession],
     service_memory |-> [r \in ApiRequests |-> <<>>],
     agent_memory |-> [r \in ApiRequests |-> <<>>],
     log |-> <<>>]

SessionsInit ==
    \E key_present \in BOOLEAN : sessions = [NoSessions EXCEPT !.key_present = key_present]

\* OwnMemory when the memory is one object that every instance refers to
OwnMemory_shared(memories, r, messages) == [q \in DOMAIN memories |-> messages]

\* self.memory of the instance that request r constructed
OwnMemory(memories, r, messages) == [memories EXCEPT ![r] = messages]

Step(r, step) == [request |-> r, step |-> step]

\* the request arrives: Depends() constructs AIService(); an OpenAIException
\* of the constructor ends the request, otherwise the instance has its own
\* LangChainAIService with a new, empty ConversationSummaryMemory
Arrive ==
    \E r \in ApiRequests, endpoint \in ServiceEndpoints \cup AgentMemoryEndpoints,
       langchainEnv \in LangchainEnvs :
        /\ sessions.req[r].pc = "idle"
        /\ LET built == AIService_init(sessions.key_present, langchainEnv)
           IN  sessions' =
                IF built.exc # NoExc
                    THEN [sessions EXCEPT
                            !.req[r] = [IdleSession EXCEPT
                                            !.pc = "done", !.endpoint = endpoint,
                                            !.langchainEnv = langchainEnv,
                                            !.constructed = "aborted",
                                            !.response = OpRaised(built.exc)],
                            !.log = Append(@, Step(r, "arrive"))]
                ELSE [sessions EXCEPT
                            !.req[r] = [IdleSession EXCEPT
                                            !.pc = IF endpoint \in AgentMemoryEndpoints
                                                       THEN "handler" ELSE "ready",
                                            !.endpoint = endpoint,
                                            !.langchainEnv = langchainEnv,
                                            !.constructed = "ok",
                                            !.ai_service = built.value],
                            !.service_memory = OwnMemory(@, r, <<>>),
                            !.log = Append(@, Step(r, "arrive"))]

\* an agent endpoint: raise HTTPException(503) without langchain_service,
\* else agent = StockAnalysisAgent(...) with a new ConversationBufferMemory
ConstructAgent ==
    \E r \in ApiRequests :
        /\ sessions.req[r].pc = "handler"
        /\ sessions' =
            IF ~sessions.req[r].ai_service.available
                THEN [sessions EXCEPT
                        !.req[r].pc = "done",
                        !.req[r].response = OpRaised("HTTPException"),
                        !.log = Append(@, Step(r, "construct"))]
            ELSE [sessions EXCEPT
                        !.req[r].pc = "ready",
                        !.agent_memory = OwnMemory(@, r, <<>>),
                        !.log = Append(@, Step(r, "construct"))]

\* the handler's call on the instance of its own request, and the response
Operated(s, r, env, argument, outcome) ==
    LET endpoint == s.req[r].endpoint
        svc == s.req[r].ai_service
        run == AgentRun(s.agent_memory[r],
                        [entry |-> "analyze_market", argument |-> argument], outcome)
        done(response) ==
            [s EXCEPT !.req[r].pc = "done", !.req[r].response = response,
                      !.log = Append(@, Step(r, "operate"))]
    IN  IF endpoint = "conversation/history"
            THEN done(AIService_get_conversation_history(svc, s.service_memory[r]))
        ELSE IF endpoint = "conversation/clear"
            THEN [done(OpValue("message", <<>>, <<>>, None)) EXCEPT
                    !.service_memory =
                        OwnMemory(@, r, AIService_clear_memory(svc, s.service_memory[r]))]
        ELSE IF endpoint = "vectorstore/stats"
            THEN done(AIService_get_vectorstore_stats(svc, env))
        ELSE IF endpoint = "contextual-analysis"
            THEN done(AIService_get_contextual_analysis(svc, env))
        ELSE IF endpoint = "agent/market-analysis"
            THEN [done(OpValue("text", <<run.returned>>, <<>>, None)) EXCEPT
                    !.agent_memory = OwnMemory(@, r, run.messages)]
        ELSE IF endpoint = "agent/conversation-history"
            THEN done(OpValue("list", <<>>, get_conversation_history(s.agent_memory[r]), None))
        ELSE [done(OpValue("message", <<>>, <<>>, None)) EXCEPT
                    !.agent_memory = OwnMemory(@, r, clear_memory(s.agent_memory[r]))]

Operate ==
    \E r \in ApiRequests, env \in {"answers", "raises"}, argument \in MultiArguments,
       outcome \in ArunOutcomes :
        /\ sessions.req[r].pc = "ready"
        /\ sessions' = Operated(sessions, r, env, argument, outcome)

----------------------------------------------------------------------------
(* Claims about the per-request instances and AIService (SpecService) *)

HistoryEndpoints == {"conversation/history", "agent/conversation-history"}

C26_OnlyMissingKeyAbortsConstruction ==
    \A r \in ApiRequests :
        LET q == sessions.req[r]
        IN  (q.pc # "idle") =>
                /\ (q.constructed = "aborted") <=> ~sessions.key_present
                /\ (q.constructed = "aborted") => q.response = OpRaised("OpenAIException")
                /\ (q.constructed = "ok") =>
                        (q.ai_service.available <=> q.langchainEnv # "fails")
                /\ (/\ q.constructed = "ok" /\ ~q.ai_service.available
                    /\ q.pc = "done" /\ q.endpoint \in ServiceEndpoints) =>
                        /\ ~q.response.raised
                        /\ sessions.service_memory[r] = <<>>
                        /\ (q.endpoint = "contextual-analysis") =>
                                q.response = OpValue("text", <<"langchain_not_initialized">>,
                                                     <<>>, None)
                        /\ (q.endpoint = "conversation/history") =>
                                q.response = OpValue("list", <<>>, <<>>, None)
                        /\ (q.endpoint = "vectorstore/stats") =>
                                q.response = OpValue("dict", <<>>, <<>>, "not_available")
                        /\ (q.endpoint = "conversation/clear") =>
                                q.response = OpValue("message", <<>>, <<>>, None)

\* the key is set, LangChainAIService() raised for both requests: the stats
\* request got not_available and the contextual request the fixed text
C26_Witness ==
    /\ sessions.key_present
    /\ \A r \in ApiRequests :
            /\ sessions.req[r].langchainEnv = "fails"
            /\ sessions.req[r].constructed = "ok"
            /\ sessions.req[r].pc = "done"
    /\ sessions.req[1].endpoint = "vectorstore/stats"
    /\ sessions.req[1].response.status = "not_available"
    /\ sessions.req[2].endpoint = "contextual-analysis"
    /\ sessions.req[2].response.text = <<"langchain_not_initialized">>

----------------------------------------------------------------------------
(* the parts a specification leaves out stay as constructed *)

AgentIdle == agentCfg = [agent_max_iterations |-> agent_max_iterations] /\ agent = AgentIdleState
ToolsIdle == toolCall = [tool |-> None]
MultiIdle == multi = MultiIdleState
MemoryIdle == MemoryInit
ApiIdle == http = NoRequest
SessionsIdle == sessions = NoSessions
StoreIdle ==
    rag = [constructed |-> "ok", vectorstore |-> init_vectorstore("ok"), docs |-> <<>>,
           req |-> [r \in Requests |-> IdleRequest], query |-> NoQuery,
           stats |-> NoStats]

----------------------------------------------------------------------------
(* Specifications *)

InitAnalysis == AnalysisInit /\ AgentIdle /\ ToolsIdle /\ MultiIdle /\ MemoryIdle /\ StoreIdle /\ ApiIdle /\ SessionsIdle

NextAnalysis ==
    \/ AnalyzeDeterministic /\ UNCHANGED <<quote, agentCfg, agent, toolCall, multi, memory, rag, http, sessions>>
    \/ AnalyzeWithAI /\ UNCHANGED <<quote, agentCfg, agent, toolCall, multi, memory, rag, http, sessions>>

SpecAnalysis == InitAnalysis /\ [][NextAnalysis]_vars

InitTools == AnalysisIdle /\ AgentIdle /\ ToolsInit /\ MultiIdle /\ MemoryIdle /\ StoreIdle /\ ApiIdle /\ SessionsIdle

NextTools ==
    \/ RunStockDataTool /\ UNCHANGED <<quote, calls, agentCfg, agent, multi, memory, rag, http, sessions>>
    \/ RunNewsAnalysisTool /\ UNCHANGED <<quote, calls, agentCfg, agent, multi, memory, rag, http, sessions>>
    \/ RunTechnicalAnalysisTool /\ UNCHANGED <<quote, calls, agentCfg, agent, multi, memory, rag, http, sessions>>
    \/ RunRiskAssessmentTool /\ UNCHANGED <<quote, calls, agentCfg, agent, multi, memory, rag, http, sessions>>

SpecTools == InitTools /\ [][NextTools]_vars

InitAgent == AnalysisIdle /\ AgentInit /\ ToolsIdle /\ MultiIdle /\ MemoryIdle /\ StoreIdle /\ ApiIdle /\ SessionsIdle

NextAgent ==
    \/ AgentStart /\ UNCHANGED <<quote, calls, toolCall, multi, memory, rag, http, sessions>>
    \/ AgentToolStep /\ UNCHANGED <<quote, calls, toolCall, multi, memory, rag, http, sessions>>
    \/ AgentFinalAnswer /\ UNCHANGED <<quote, calls, toolCall, multi, memory, rag, http, sessions>>
    \/ AgentLlmError /\ UNCHANGED <<quote, calls, toolCall, multi, memory, rag, http, sessions>>
    \/ AgentStopped /\ UNCHANGED <<quote, calls, toolCall, multi, memory, rag, http, sessions>>

SpecAgent == InitAgent /\ [][NextAgent]_vars

InitMulti == AnalysisIdle /\ AgentIdle /\ ToolsIdle /\ MultiInit /\ MemoryIdle /\ StoreIdle /\ ApiIdle /\ SessionsIdle

NextMulti ==
    \/ ComprehensiveStart /\ UNCHANGED <<quote, calls, agentCfg, agent, toolCall, memory, rag, http, sessions>>
    \/ ComprehensiveAgentEnds /\ UNCHANGED <<quote, calls, agentCfg, agent, toolCall, memory, rag, http, sessions>>
    \/ CollaborativeStart /\ UNCHANGED <<quote, calls, agentCfg, agent, toolCall, memory, rag, http, sessions>>
    \/ CollaborativeStageReturns /\ UNCHANGED <<quote, calls, agentCfg, agent, toolCall, memory, rag, http, sessions>>
    \/ CollaborativeStageRaises /\ UNCHANGED <<quote, calls, agentCfg, agent, toolCall, memory, rag, http, sessions>>

SpecMulti == InitMulti /\ [][NextMulti]_vars

InitMemory == AnalysisIdle /\ AgentIdle /\ ToolsIdle /\ MultiIdle /\ MemoryInit /\ StoreIdle /\ ApiIdle /\ SessionsIdle

NextMemory ==
    \/ AgentAnalyze /\ UNCHANGED <<quote, calls, agentCfg, agent, toolCall, multi, rag, http, sessions>>
    \/ ClearMemory /\ UNCHANGED <<quote, calls, agentCfg, agent, toolCall, multi, rag, http, sessions>>
    \/ GetConversationHistory /\ UNCHANGED <<quote, calls, agentCfg, agent, toolCall, multi, rag, http, sessions>>
    \/ ServiceAnalyze /\ UNCHANGED <<quote, calls, agentCfg, agent, toolCall, multi, rag, http, sessions>>

SpecMemory == InitMemory /\ [][NextMemory]_vars

InitStore == AnalysisIdle /\ AgentIdle /\ ToolsIdle /\ MultiIdle /\ MemoryIdle /\ StoreInit /\ ApiIdle /\ SessionsIdle

NextStore ==
    \/ IndexStart /\ UNCHANGED <<quote, calls, agentCfg, agent, toolCall, multi, memory, http, sessions>>
    \/ ChainFails /\ UNCHANGED <<quote, calls, agentCfg, agent, toolCall, multi, memory, http, sessions>>
    \/ IndexSplit /\ UNCHANGED <<quote, calls, agentCfg, agent, toolCall, multi, memory, http, sessions>>
    \/ IndexSplitFails /\ UNCHANGED <<quote, calls, agentCfg, agent, toolCall, multi, memory, http, sessions>>
    \/ IndexTag /\ UNCHANGED <<quote, calls, agentCfg, agent, toolCall, multi, memory, http, sessions>>
    \/ IndexAdd /\ UNCHANGED <<quote, calls, agentCfg, agent, toolCall, multi, memory, http, sessions>>
    \/ IndexAddFails /\ UNCHANGED <<quote, calls, agentCfg, agent, toolCall, multi, memory, http, sessions>>
    \/ ContextualQuery /\ UNCHANGED <<quote, calls, agentCfg, agent, toolCall, multi, memory, http, sessions>>
    \/ VectorstoreStats /\ UNCHANGED <<quote, calls, agentCfg, agent, toolCall, multi, memory, http, sessions>>

SpecStore == InitStore /\ [][NextStore]_vars

InitApi ==
    AnalysisIdle /\ AgentIdle /\ ToolsIdle /\ MultiIdle /\ MemoryIdle /\ StoreIdle /\ ApiInit /\ SessionsIdle

NextApi ==
    \/ GetStockAnalysis /\ UNCHANGED <<quote, calls, agentCfg, agent, toolCall, multi, memory, rag, sessions>>
    \/ GetRisingStocks /\ UNCHANGED <<quote, calls, agentCfg, agent, toolCall, multi, memory, rag, sessions>>
    \/ PostAgentAnalysis /\ UNCHANGED <<quote, calls, agentCfg, agent, toolCall, multi, memory, rag, sessions>>

SpecApi == InitApi /\ [][NextApi]_vars

InitService ==
    AnalysisIdle /\ AgentIdle /\ ToolsIdle /\ MultiIdle /\ MemoryIdle /\ StoreIdle /\ ApiIdle
        /\ SessionsInit

NextService ==
    \/ Arrive /\ UNCHANGED <<quote, calls, agentCfg, agent, toolCall, multi, memory, rag, http>>
    \/ ConstructAgent /\ UNCHANGED <<quote, calls, agentCfg, agent, toolCall, multi, memory, rag, http>>
    \/ Operate /\ UNCHANGED <<quote, calls, agentCfg, agent, toolCall, multi, memory, rag, http>>

SpecService == InitService /\ [][NextService]_vars

=============================================================================
